---- MODULE Spec2Model ----
(***************************************************************************)
(* State-machine model of the generic data-structures library:             *)
(*   - binary search tree (src/src/non-linear/BST.c) over binary nodes     *)
(*   - AVL tree (src/src/non-linear/AVL.c) layered on the BST              *)
(*   - skip list (skiplist.c) over snode (src/src/linear/snode.c)          *)
(*   - open-addressing hash table (src/src/non-linear/hashmap.c)           *)
(* Pointers are node identifiers, NULL is 0.  Element values are small     *)
(* positive integers and the comparator is the integer comparator a - b.   *)
(***************************************************************************)
EXTENDS Integers, Sequences, FiniteSets, TLC

(* ----------------------------- bounds ---------------------------------- *)
MaxNodes == 4          \* binarynode_create calls explored per behaviour
MaxVal == 3            \* element values are 1..MaxVal
MaxSNodes == 3         \* skip-list insertions explored per behaviour
MaxLevels == 2         \* max_levels handed to sl_create
MaxSlRemoves == 2      \* sl_remove calls explored per behaviour
MaxPuts == 3           \* hash_put calls explored per behaviour
Capacity == 3          \* capacity handed to hash_create
MaxElem == 2           \* hash-table values are 1..MaxElem
SizeMax == 7           \* stands for SIZE_MAX: size_t arithmetic is modulo SizeMax + 1
RingCapacity == 3      \* max_capacity handed to ring_create
MaxQNodes == 4         \* queue_enqueue calls explored per behaviour
MaxDNodes == 3         \* deque pushes explored per behaviour

NULL == 0
Values == 1..MaxVal
NodeIds == 1..MaxNodes

VARIABLES
    node,        \* binarynode heap: id -> [ptr, father, left, right]
    nodeCount,   \* number of binarynodes allocated so far
    root,        \* bst->root
    treeFault,   \* the process died inside a tree operation, or never returns from it
    treeLast,    \* last tree call: [op, x, ret, before, prev, fresh]; before is the
                 \* left-root-right value sequence the tree had when a removal was
                 \* called; fresh marks an insert of a value the tree did not hold
                 \* and the removal of that value right after it, prev is the
                 \* shape the tree had before that insert
    inserted,    \* sorted sequence of the values handed to insert so far
    live,        \* values inserted and not handed to remove since
    visited      \* values handed to the callback by the last traversal

treeVars == <<node, nodeCount, root, treeFault, treeLast, inserted, live, visited>>

VARIABLES
    slHeap,         \* snode heap: id -> [ptr, forward, level, freed]
    slCount,        \* number of snodes allocated besides the sentinel
    element_count,  \* sl->element_count
    max_levels,     \* sl->max_levels
    slFault,        \* the process died inside a skip-list operation
    slLast,         \* last skip-list call: [op, x, ret]
    slInserted,     \* sorted sequence of the values handed to sl_insert
    slLive,         \* values inserted and not handed to sl_remove since
    slRemoves       \* number of sl_remove calls so far

slVars == <<slHeap, slCount, element_count, max_levels, slFault, slLast, slInserted, slLive, slRemoves>>

VARIABLES
    values,       \* hash->values: slot -> [key, val]
    occupied,     \* hash->occupied: slot -> bit
    hash_func,    \* hash->hash_func
    second_hash,  \* hash->second_hash
    hashFault,    \* the process died inside a hash-table operation
    hashLast,     \* last hash-table call: [op, key, ret, pre, step]; step is the stride a
                  \* hash_remove call got from the second hash
    hmap,         \* the map the calls so far describe: key -> value, 0 when absent
    hClean,       \* so far only puts of absent keys into a non-full table
    hPuts         \* number of hash_put calls so far

hashVars == <<values, occupied, hash_func, second_hash, hashFault, hashLast, hmap, hClean, hPuts>>

VARIABLES
    ring_vec,     \* r->vec: index -> element, 0 for zeroed bytes
    ring_head,    \* r->head
    ring_tail,    \* r->tail
    ring_flags,   \* r->flags
    ringLast,     \* last ring call: [op, x, ret]
    ringStored    \* the elements a ring of RingCapacity places holds after the calls so
                  \* far, oldest first

ringVars == <<ring_vec, ring_head, ring_tail, ring_flags, ringLast, ringStored>>

VARIABLES
    qHeap,            \* node heap of the queue's list: id -> [ptr, next, freed]
    qCount,           \* number of nodes allocated so far
    cl_head,          \* q->tail->head
    cl_element_count, \* q->tail->element_count
    queueFault,       \* the process died inside a queue operation
    queueLast,        \* last queue call: [op, x, ret]
    queueIn,          \* the values enqueued so far, in call order
    queueOut          \* the values the dequeues returned so far, in call order

queueVars == <<qHeap, qCount, cl_head, cl_element_count, queueFault, queueLast, queueIn, queueOut>>

VARIABLES
    dHeap,             \* dnode heap of the deque's list: id -> [ptr, prev, next, freed]
    dCount,            \* number of dnodes allocated so far
    dcl_head,          \* d->head->head
    dcl_element_count, \* d->head->element_count
    dequeFault,        \* the process died inside a deque operation
    dequeLast,         \* last deque call: [op, x, ret, want]; want is the
                       \* element a pop is expected to return
    dequeModel         \* the elements the deque is expected to hold, front first

dequeVars == <<dHeap, dCount, dcl_head, dcl_element_count, dequeFault, dequeLast, dequeModel>>

nonTreeVars == <<slVars, hashVars, ringVars, queueVars, dequeVars>>
nonSkipVars == <<treeVars, hashVars, ringVars, queueVars, dequeVars>>
nonHashVars == <<treeVars, slVars, ringVars, queueVars, dequeVars>>
nonRingVars == <<treeVars, slVars, hashVars, queueVars, dequeVars>>
nonQueueVars == <<treeVars, slVars, hashVars, ringVars, dequeVars>>
nonDequeVars == <<treeVars, slVars, hashVars, ringVars, queueVars>>

(* ------------------------- binarynode.c -------------------------------- *)
ZeroNode == [ptr |-> 0, father |-> NULL, left |-> NULL, right |-> NULL]

binarynode_create(x) == [ptr |-> x, father |-> NULL, left |-> NULL, right |-> NULL]

binarynode_get_value(nd, bn) == IF bn # NULL THEN nd[bn].ptr ELSE NULL
binarynode_get_father(nd, bn) == IF bn # NULL THEN nd[bn].father ELSE NULL
binarynode_get_left_child(nd, bn) == IF bn # NULL THEN nd[bn].left ELSE NULL
binarynode_get_right_child(nd, bn) == IF bn # NULL THEN nd[bn].right ELSE NULL

binarynode_set_father(nd, bn, f) == IF bn # NULL THEN [nd EXCEPT ![bn].father = f] ELSE nd
binarynode_set_left_child(nd, bn, l) == IF bn # NULL THEN [nd EXCEPT ![bn].left = l] ELSE nd
binarynode_set_right_child(nd, bn, r) == IF bn # NULL THEN [nd EXCEPT ![bn].right = r] ELSE nd

\* memset(*bn, 0, sizeof(binarynode)); free(*bn)
binarynode_delete(nd, bn) == IF bn # NULL THEN [nd EXCEPT ![bn] = ZeroNode] ELSE nd

Max2(a, b) == IF a >= b THEN a ELSE b

RECURSIVE binarynode_get_height(_, _)
binarynode_get_height(nd, bn) ==
    IF bn # NULL
    THEN 1 + Max2(binarynode_get_height(nd, nd[bn].left), binarynode_get_height(nd, nd[bn].right))
    ELSE 0

binarynode_get_balance(nd, bn) ==
    IF bn # NULL
    THEN binarynode_get_height(nd, nd[bn].left) - binarynode_get_height(nd, nd[bn].right)
    ELSE 0

(* ------------------------------ BST.c ---------------------------------- *)
\* the caller-supplied three-way comparator, on two valid element pointers
compare(a, b) == a - b

\* Outcomes of bst->compare(x, NULL): the comparator dereferences its second
\* argument, so the call either kills the process or yields some integer.
NullCmp == {"fault", "neg", "nonneg"}

\* BST_create: result [bst, root]; bst is NULL when no object is made.
\* malloc is taken to succeed.
BST_create_res(element_size, cmp) ==
    IF 0 < element_size /\ element_size <= SizeMax
    THEN IF cmp # NULL THEN [bst |-> 1, root |-> NULL]
         ELSE [bst |-> NULL, root |-> NULL]
    ELSE [bst |-> NULL, root |-> NULL]

\* BST_is_empty on a valid handle
BST_is_empty(rt) == rt = NULL

\* BST_insert, the descent loop: returns n_father, the last non-null node
RECURSIVE BST_insert_descend(_, _, _, _)
BST_insert_descend(nd, tmp, n_father, x) ==
    IF tmp = NULL THEN n_father
    ELSE BST_insert_descend(nd,
            IF compare(x, binarynode_get_value(nd, tmp)) < 0
            THEN binarynode_get_left_child(nd, tmp)
            ELSE binarynode_get_right_child(nd, tmp),
            tmp, x)

\* BST_insert: result [node, root, ret, fault]; c is the outcome of the
\* comparison against the null tmp after the loop (line 107)
BST_insert_res(nd, rt, cnt, x, c) ==
    LET n == cnt + 1
        nd0 == [nd EXCEPT ![n] = binarynode_create(x)]
    IN  IF rt = NULL
        THEN [node |-> nd0, root |-> n, ret |-> n, fault |-> FALSE]
        ELSE LET n_father == BST_insert_descend(nd0, rt, NULL, x)
                 nd1 == binarynode_set_father(nd0, n, n_father)
             IN  CASE c = "fault" -> [node |-> nd1, root |-> rt, ret |-> NULL, fault |-> TRUE]
                   [] c = "neg" -> [node |-> binarynode_set_left_child(nd1, n_father, n),
                                    root |-> rt, ret |-> n, fault |-> FALSE]
                   [] OTHER -> [node |-> binarynode_set_right_child(nd1, n_father, n),
                                root |-> rt, ret |-> n, fault |-> FALSE]

\* BST_search, the loop over the inner variable n
RECURSIVE BST_search_loop(_, _, _)
BST_search_loop(nd, n, x) ==
    IF n = NULL THEN NULL
    ELSE LET diff == compare(x, binarynode_get_value(nd, n))
         IN  IF diff = 0 THEN n
             ELSE IF diff < 0 THEN BST_search_loop(nd, binarynode_get_left_child(nd, n), x)
             ELSE BST_search_loop(nd, binarynode_get_right_child(nd, n), x)

\* BST_search handing back the node its search starts from
BST_search_start(nd, rt, x) == rt

\* BST_search: the loop runs on a variable n declared inside the if block,
\* which shadows the outer n (initialised to NULL) that is returned
BST_search(nd, rt, x) ==
    LET outer_n == NULL
        inner_n == BST_search_loop(nd, rt, x)
    IN  outer_n

\* BST_search(bst, NULL) on a valid handle: only bst is tested, so on a
\* non-empty tree the comparator is called with x = NULL; c is what that
\* call does.  Result [ret, fault].
BST_search_null_res(nd, rt, c) ==
    IF rt = NULL THEN [ret |-> NULL, fault |-> FALSE]
    ELSE [ret |-> BST_search(nd, rt, NULL), fault |-> c = "fault"]

\* "while (binarynode_get_left_child(tmp)) tmp = binarynode_get_left_child(tmp);"
RECURSIVE BST_min_walk(_, _)
BST_min_walk(nd, tmp) ==
    IF binarynode_get_left_child(nd, tmp) # NULL
    THEN BST_min_walk(nd, binarynode_get_left_child(nd, tmp))
    ELSE tmp

\* "while (binarynode_get_right_child(tmp)) tmp = binarynode_get_right_child(tmp);"
RECURSIVE BST_max_walk(_, _)
BST_max_walk(nd, tmp) ==
    IF binarynode_get_right_child(nd, tmp) # NULL
    THEN BST_max_walk(nd, binarynode_get_right_child(nd, tmp))
    ELSE tmp

\* BST_min, BST_max: the value pointer of the node the walk ends on
BST_min_res(nd, rt) == binarynode_get_value(nd, BST_min_walk(nd, rt))
BST_max_res(nd, rt) == binarynode_get_value(nd, BST_max_walk(nd, rt))

\* BST_min_2, BST_max_2: memcpy(buf, binarynode_get_value(tmp), element_size)
\* with no test of the value pointer; on an empty tree the source is NULL,
\* a read of address 0.  Result [buf, fault].
BST_min_2_res(nd, rt, buf) ==
    IF BST_min_res(nd, rt) = NULL THEN [buf |-> buf, fault |-> TRUE]
    ELSE [buf |-> BST_min_res(nd, rt), fault |-> FALSE]
BST_max_2_res(nd, rt, buf) ==
    IF BST_max_res(nd, rt) = NULL THEN [buf |-> buf, fault |-> TRUE]
    ELSE [buf |-> BST_max_res(nd, rt), fault |-> FALSE]

BST_contains(nd, rt, x) == BST_search(nd, rt, x) # NULL

\* BST_successor: with a right child the loop moves bn, but the value
\* returned is tmp, the right child itself
RECURSIVE BST_successor_up(_, _, _)
BST_successor_up(nd, bn, father) ==
    IF father # NULL /\ bn = binarynode_get_right_child(nd, father)
    THEN BST_successor_up(nd, father, binarynode_get_father(nd, father))
    ELSE father

BST_successor(nd, bn) ==
    IF bn = NULL THEN NULL
    ELSE IF binarynode_get_right_child(nd, bn) # NULL
         THEN binarynode_get_right_child(nd, bn)
         ELSE BST_successor_up(nd, bn, binarynode_get_father(nd, bn))

RECURSIVE BST_predecessor_up(_, _, _)
BST_predecessor_up(nd, bn, father) ==
    IF father # NULL /\ bn = binarynode_get_left_child(nd, father)
    THEN BST_predecessor_up(nd, father, binarynode_get_father(nd, father))
    ELSE father

BST_predecessor(nd, bn) ==
    IF bn = NULL THEN NULL
    ELSE IF binarynode_get_left_child(nd, bn) # NULL
         THEN binarynode_get_left_child(nd, bn)
         ELSE BST_predecessor_up(nd, bn, binarynode_get_father(nd, bn))

\* BST_remove, the two-children branch (lines 136-157), one operator per
\* statement, each on the heap the statement before it left.
\* lines 140-143: the successor's father drops it for tmp
BST_remove_two_unhook(nd, successor, tmp) ==
    IF binarynode_get_left_child(nd, binarynode_get_father(nd, successor)) = successor
    THEN binarynode_set_left_child(nd, binarynode_get_father(nd, successor), tmp)
    ELSE binarynode_set_right_child(nd, binarynode_get_father(nd, successor), tmp)

\* line 145: tmp gets the successor's father
BST_remove_two_reparent(nd, successor, tmp) ==
    IF tmp # NULL THEN binarynode_set_father(nd, tmp, binarynode_get_father(nd, successor))
    ELSE nd

\* lines 147-149: the successor takes over the links of x_node
BST_remove_two_take_left(nd, successor, x_node) ==
    binarynode_set_left_child(nd, successor, binarynode_get_left_child(nd, x_node))

BST_remove_two_take_right(nd, successor, x_node) ==
    binarynode_set_right_child(nd, successor, binarynode_get_right_child(nd, x_node))

BST_remove_two_take_father(nd, successor, x_node) ==
    binarynode_set_father(nd, successor, binarynode_get_father(nd, x_node))

\* lines 151-152: the children of x_node get the successor as father
BST_remove_two_left_father(nd, successor, x_node) ==
    IF binarynode_get_left_child(nd, x_node) # NULL
    THEN binarynode_set_father(nd, binarynode_get_left_child(nd, x_node), successor)
    ELSE nd

BST_remove_two_right_father(nd, successor, x_node) ==
    IF binarynode_get_right_child(nd, x_node) # NULL
    THEN binarynode_set_father(nd, binarynode_get_right_child(nd, x_node), successor)
    ELSE nd

\* lines 154-156: the father of x_node, or the root pointer, takes the successor
BST_remove_two_attach(nd, rt, successor, x_node) ==
    IF binarynode_get_father(nd, x_node) = NULL THEN [node |-> nd, root |-> successor]
    ELSE IF binarynode_get_left_child(nd, binarynode_get_father(nd, x_node)) = x_node
         THEN [node |-> binarynode_set_left_child(nd, binarynode_get_father(nd, x_node), successor),
               root |-> rt]
         ELSE [node |-> binarynode_set_right_child(nd, binarynode_get_father(nd, x_node), successor),
               root |-> rt]

BST_remove_two_splice(nd, rt, x_node, successor, tmp) ==
    IF successor = NULL THEN [node |-> nd, root |-> rt]
    ELSE BST_remove_two_attach(
             BST_remove_two_right_father(
                 BST_remove_two_left_father(
                     BST_remove_two_take_father(
                         BST_remove_two_take_right(
                             BST_remove_two_take_left(
                                 BST_remove_two_reparent(
                                     BST_remove_two_unhook(nd, successor, tmp),
                                     successor, tmp),
                                 successor, x_node),
                             successor, x_node),
                         successor, x_node),
                     successor, x_node),
                 successor, x_node),
             rt, successor, x_node)

\* result [node, root]
BST_remove_two(nd, rt, x_node) ==
    BST_remove_two_splice(nd, rt, x_node, BST_successor(nd, x_node),
                          binarynode_get_right_child(nd, BST_successor(nd, x_node)))

\* BST_remove, the branches with at most one child (lines 160-231):
\* child is the only child of x_node, or NULL for a leaf
BST_remove_link(nd, rt, x_node, father, child) ==
    LET n1 == IF father # NULL
              THEN IF x_node = binarynode_get_left_child(nd, father)
                   THEN binarynode_set_left_child(nd, father, child)
                   ELSE binarynode_set_right_child(nd, father, child)
              ELSE nd
        r1 == IF father # NULL THEN rt ELSE child
    IN  [node |-> binarynode_set_father(n1, child, father), root |-> r1]

\* BST_remove over a located node x_node: result [node, root, ret]
BST_remove_node(nd, rt, x_node) ==
    LET father == binarynode_get_father(nd, x_node)
    IN  IF x_node = NULL THEN [node |-> nd, root |-> rt, ret |-> father]
        ELSE
        LET r == IF binarynode_get_left_child(nd, x_node) # NULL
                 THEN IF binarynode_get_right_child(nd, x_node) # NULL
                      THEN BST_remove_two(nd, rt, x_node)
                      ELSE BST_remove_link(nd, rt, x_node, father,
                                           binarynode_get_left_child(nd, x_node))
                 ELSE BST_remove_link(nd, rt, x_node, father,
                                      binarynode_get_right_child(nd, x_node))
        IN  [node |-> binarynode_delete(r.node, x_node), root |-> r.root, ret |-> father]

\* BST_remove: x_node comes from BST_search
BST_remove_res(nd, rt, x) == BST_remove_node(nd, rt, BST_search(nd, rt, x))

\* BST_clear, the loop "while (bst->root) BST_remove(bst, value of root)":
\* result [node, root, iterations, hang].  An iteration that leaves heap
\* and root as they were is repeated for ever: hang.
RECURSIVE BST_clear_loop(_, _, _)
BST_clear_loop(nd, rt, i) ==
    IF rt = NULL THEN [node |-> nd, root |-> rt, iterations |-> i, hang |-> FALSE]
    ELSE LET r == BST_remove_res(nd, rt, binarynode_get_value(nd, rt))
         IN  IF r.node = nd /\ r.root = rt
             THEN [node |-> nd, root |-> rt, iterations |-> i, hang |-> TRUE]
             ELSE BST_clear_loop(r.node, r.root, i + 1)

BST_clear_res(nd, rt) == BST_clear_loop(nd, rt, 0)

\* Traversal.  stack_push copies pointer-size bytes FROM the node it is
\* given, i.e. the node's first field (ptr); stack_pop returns a malloc'ed
\* 8-byte copy of it, which the traversal then uses as a binarynode pointer.
\* Its value field is the pushed node's value pointer; its right field lies
\* outside the allocation.

\* the nodes pushed by the inner "go to the far left" loop, top of stack first
RECURSIVE BST_left_spine(_, _, _)
BST_left_spine(nd, tmp, stck) ==
    IF tmp = NULL THEN stck
    ELSE BST_left_spine(nd, binarynode_get_left_child(nd, tmp), <<tmp>> \o stck)

\* BST_traverse_inoder: k is the number of pops whose out-of-bounds read of
\* the right child yields NULL before one yields a non-null word (k equal to
\* the stack depth: every read yields NULL and the loop ends normally).
\* Result [seq, fault].
BST_traverse_inoder_res(nd, rt, k) ==
    LET stck == BST_left_spine(nd, rt, << >>)
        pops == IF k < Len(stck) THEN k + 1 ELSE Len(stck)
    IN  [seq |-> [i \in 1..pops |-> binarynode_get_value(nd, stck[i])],
         fault |-> k < Len(stck)]

\* what the reads of ->left and ->right of a popped 8-byte block can give:
\* null words, or some other word, which the next stack_push then copies from
OobReads == {"null", "garbage"}

\* BST_traverse_preoder: the root is pushed (its value pointer, see above)
\* and popped, the callback gets its value, then the children are read out
\* of bounds.  Result [seq, fault].
BST_traverse_preoder_res(nd, rt, g) ==
    IF rt = NULL THEN [seq |-> << >>, fault |-> FALSE]
    ELSE [seq |-> <<binarynode_get_value(nd, rt)>>, fault |-> g = "garbage"]

\* BST_util_count: the callback of BST_get_size, one more for a non-null x
BST_util_count(x) == IF x # NULL THEN 1 ELSE 0

\* the sum of BST_util_count over the values a traversal handed out
RECURSIVE UTIL_COUNT(_)
UTIL_COUNT(seq) ==
    IF seq = << >> THEN 0 ELSE BST_util_count(Head(seq)) + UTIL_COUNT(Tail(seq))

\* BST_get_size counts the callbacks of a BST_traverse_preoder.  Result
\* [dim, fault].
BST_get_size_res(nd, rt, g) ==
    [dim |-> UTIL_COUNT(BST_traverse_preoder_res(nd, rt, g).seq),
     fault |-> BST_traverse_preoder_res(nd, rt, g).fault]

\* BST_get_height
BST_get_height(nd, rt) == binarynode_get_height(nd, rt)

\* BST_traverse_postoder: the value of the popped root goes onto the second
\* stack, then the children are read out of bounds; the callbacks run only
\* after that loop.  Result [seq, fault].
BST_traverse_postoder_res(nd, rt, g) ==
    IF rt = NULL THEN [seq |-> << >>, fault |-> FALSE]
    ELSE IF g = "garbage" THEN [seq |-> << >>, fault |-> TRUE]
    ELSE [seq |-> <<binarynode_get_value(nd, rt)>>, fault |-> FALSE]

(* ------------------------------ AVL.c ---------------------------------- *)
\* AVL_util_right_rotation: result [node, ret]
AVL_util_right_rotation(nd, z) ==
    LET y == binarynode_get_left_child(nd, z)
        t == binarynode_get_right_child(nd, y)
        n1 == binarynode_set_right_child(nd, y, z)
        n2 == binarynode_set_left_child(n1, z, t)
        n3 == binarynode_set_father(n2, t, z)
        n4 == binarynode_set_father(n3, y, binarynode_get_father(n3, z))
        n5 == binarynode_set_father(n4, z, y)
    IN  [node |-> n5, ret |-> y]

\* AVL_util_left_rotation: result [node, ret]
AVL_util_left_rotation(nd, x) ==
    LET y == binarynode_get_right_child(nd, x)
        t == binarynode_get_left_child(nd, y)
        n1 == binarynode_set_left_child(nd, y, x)
        n2 == binarynode_set_right_child(n1, x, t)
        n3 == binarynode_set_father(n2, t, x)
        n4 == binarynode_set_father(n3, y, binarynode_get_father(n3, x))
        n5 == binarynode_set_father(n4, x, y)
    IN  [node |-> n5, ret |-> y]

\* one iteration of the rebalancing loop at n, up to "n = father(n)":
\* result [node, ret] with ret the node the rotation returned (n itself
\* when no rotation was needed)
AVL_rebalance_step(nd, n, x) ==
    LET balance == binarynode_get_balance(nd, n)
    IN  IF balance > 1
        THEN IF compare(x, binarynode_get_value(nd, binarynode_get_left_child(nd, n))) < 0
             THEN AVL_util_right_rotation(nd, n)
             ELSE LET r == AVL_util_left_rotation(nd, binarynode_get_left_child(nd, n))
                  IN  AVL_util_right_rotation(binarynode_set_left_child(r.node, n, r.ret), n)
        ELSE IF balance < -1
        THEN IF compare(x, binarynode_get_value(nd, binarynode_get_right_child(nd, n))) > 0
             THEN AVL_util_left_rotation(nd, n)
             ELSE LET r == AVL_util_right_rotation(nd, binarynode_get_right_child(nd, n))
                  IN  AVL_util_left_rotation(binarynode_set_right_child(r.node, n, r.ret), n)
        ELSE [node |-> nd, ret |-> n]

\* the "while (n)" loop of AVL_insert and AVL_remove: the heap it leaves
RECURSIVE AVL_rebalance(_, _, _)
AVL_rebalance(nd, n, x) ==
    IF n = NULL THEN nd
    ELSE LET r == AVL_rebalance_step(nd, n, x)
         IN  AVL_rebalance(r.node, binarynode_get_father(r.node, r.ret), x)

\* AVL_search, AVL_contains and AVL_get_size forward to the BST
AVL_search(nd, rt, x) == BST_search(nd, rt, x)
AVL_contains(nd, rt, x) == AVL_search(nd, rt, x) # NULL
AVL_get_size_res(nd, rt, g) == BST_get_size_res(nd, rt, g)

\* AVL_create: the AVL object is kept only when BST_create made its tree.
\* Result [avl, root].
AVL_create_res(element_size, cmp) ==
    IF BST_create_res(element_size, cmp).bst # NULL
    THEN [avl |-> 1, root |-> BST_create_res(element_size, cmp).root]
    ELSE [avl |-> NULL, root |-> NULL]

\* AVL_insert: result [node, root, fault]
AVL_insert_res(nd, rt, cnt, x, c) ==
    LET r == BST_insert_res(nd, rt, cnt, x, c)
    IN  IF r.fault THEN [node |-> r.node, root |-> r.root, fault |-> TRUE]
        ELSE [node |-> AVL_rebalance(r.node, binarynode_get_father(r.node, r.ret), x),
              root |-> r.root, fault |-> FALSE]

\* AVL_remove: result [node, root]
AVL_remove_res(nd, rt, x) ==
    LET r == BST_remove_res(nd, rt, x)
    IN  [node |-> AVL_rebalance(r.node, r.ret, x), root |-> r.root]

(* ---------------------------- vector.c --------------------------------- *)
\* vec_insert_at, vec_remove_at and vec_get_at on a valid vector of size
\* elements; an index out of range is ignored
vec_insert_at(v, size, x, i) == IF i < size /\ x # NULL THEN [v EXCEPT ![i] = x] ELSE v
vec_remove_at(v, size, i) == IF i < size THEN [v EXCEPT ![i] = 0] ELSE v
vec_get_at(v, size, i) == IF i < size THEN v[i] ELSE NULL

(* -------------------------- ringbuffer.c ------------------------------- *)
OVERWRITE_POLICY == 1
IS_FULL == 2

\* "flags & bit" and "flags |= bit" for a one-bit mask
flag_test(flags, bit) == (flags \div bit) % 2 = 1
flag_set(flags, bit) == IF flag_test(flags, bit) THEN flags ELSE flags + bit

ring_is_full(flags) == flag_test(flags, IS_FULL)
ring_is_empty(head, tail, flags) == head = tail /\ ~flag_test(flags, IS_FULL)
ring_get_max_size == RingCapacity
ring_get_cur_size(head, tail, flags) ==
    IF ring_is_full(flags) THEN ring_get_max_size
    ELSE IF head <= tail THEN tail - head
         ELSE ring_get_max_size - head + tail

\* ring_enqueue: result [vec, head, tail, flags]
ring_enqueue_res(v, head, tail, flags, x) ==
    IF ring_is_full(flags)
    THEN IF flag_test(flags, OVERWRITE_POLICY)
         THEN [vec |-> vec_insert_at(vec_remove_at(v, RingCapacity, head), RingCapacity, x, tail),
               head |-> (head + 1) % RingCapacity,
               tail |-> (tail + 1) % RingCapacity,
               flags |-> flags]
         ELSE [vec |-> v, head |-> head, tail |-> tail, flags |-> flags]
    ELSE [vec |-> vec_insert_at(v, RingCapacity, x, tail),
          head |-> head,
          tail |-> (tail + 1) % RingCapacity,
          flags |-> IF head = (tail + 1) % RingCapacity THEN flag_set(flags, IS_FULL) ELSE flags]

\* ring_deque and ring_deque_2: result [vec, head, ret], ret the element
\* handed back, NULL (or the untouched buffer) on an empty ring; malloc is
\* taken to succeed
ring_deque_res(v, head, tail, flags) ==
    IF ~ring_is_empty(head, tail, flags)
    THEN [vec |-> vec_remove_at(v, RingCapacity, head),
          head |-> (head + 1) % RingCapacity,
          ret |-> vec_get_at(v, RingCapacity, head)]
    ELSE [vec |-> v, head |-> head, ret |-> NULL]

(* ------------------------------ node.c --------------------------------- *)
QNodeIds == 1..MaxQNodes
ZeroQNode == [ptr |-> 0, next |-> NULL, freed |-> FALSE]

node_create(x) == [ptr |-> x, next |-> NULL, freed |-> FALSE]
node_get_value(qh, n) == IF n # NULL THEN qh[n].ptr ELSE NULL
node_get_next(qh, n) == IF n # NULL THEN qh[n].next ELSE NULL
node_set_next(qh, n, next) == IF n # NULL THEN [qh EXCEPT ![n].next = next] ELSE qh
\* node_delete: memset(0) then free
node_delete(qh, n) == IF n # NULL THEN [qh EXCEPT ![n] = [ptr |-> 0, next |-> NULL, freed |-> TRUE]] ELSE qh

(* --------------------------- clinkedlist.c ------------------------------ *)
\* cl_create leaves cl->head as malloc delivered it; UNINIT marks the field
\* until it is first assigned, and a read of it then yields any pointer
UNINIT == -2
HeadReads(head) == IF head = UNINIT THEN {NULL} \cup QNodeIds ELSE {head}

\* "for (int j = 1; j < bound; j++) tmp = node_get_next(tmp);" from j on
RECURSIVE cl_walk(_, _, _, _)
cl_walk(qh, tmp, j, bound) ==
    IF j < bound THEN cl_walk(qh, node_get_next(qh, tmp), j + 1, bound) ELSE tmp

\* cl_insert_at, the case actual_index # 0: n goes behind node actual_index - 1
cl_insert_link(qh, head, n, i, actual_index) ==
    [heap |-> node_set_next(
                  node_set_next(qh, n, node_get_next(qh, cl_walk(qh, head, 1, actual_index))),
                  cl_walk(qh, head, 1, actual_index), n),
     head |-> IF i = 0 THEN n ELSE head]

\* cl_insert_at: result [heap, head, count]; n is the node node_create
\* returns, the allocation is taken to succeed
cl_insert_at(qh, head, count, n, x, i) ==
    IF x # NULL /\ i <= count
    THEN LET qh0 == [qh EXCEPT ![n] = node_create(x)]
             actual_index == IF i = 0 THEN count ELSE i
         IN  IF actual_index # 0
             THEN [heap |-> cl_insert_link(qh0, head, n, i, actual_index).heap,
                   head |-> cl_insert_link(qh0, head, n, i, actual_index).head,
                   count |-> (count + 1) % (SizeMax + 1)]
             ELSE [heap |-> node_set_next(qh0, n, n), head |-> n,
                   count |-> (count + 1) % (SizeMax + 1)]
    ELSE [heap |-> qh, head |-> head, count |-> count]

\* cl_remove_at, the case element_count > 1: tmp is the node before the
\* one removed, i the index after "i = (i == 0) ? element_count : i"
cl_remove_unlink(qh, head, count, tmp, i) ==
    [heap |-> node_set_next(qh, tmp, node_get_next(qh, node_get_next(qh, tmp))),
     head |-> IF i = count
              THEN node_get_next(node_set_next(qh, tmp, node_get_next(qh, node_get_next(qh, tmp))), tmp)
              ELSE head]

\* cl_remove_at: result [heap, head, count]
cl_remove_at(qh, head, count, i0) ==
    IF i0 < count
    THEN LET i == IF i0 = 0 THEN count ELSE i0
             tmp == cl_walk(qh, head, 1, i)
             to_be_deleted == node_get_next(qh, tmp)
         IN  IF count > 1
             THEN [heap |-> node_delete(cl_remove_unlink(qh, head, count, tmp, i).heap, to_be_deleted),
                   head |-> cl_remove_unlink(qh, head, count, tmp, i).head,
                   count |-> count - 1]
             ELSE [heap |-> node_delete(qh, to_be_deleted), head |-> NULL, count |-> count - 1]
    ELSE [heap |-> qh, head |-> head, count |-> count]

\* cl_get_at: the value pointer of node i, NULL when i is out of range
cl_get_at(qh, head, count, i) ==
    IF i < count THEN node_get_value(qh, cl_walk(qh, head, 0, i)) ELSE NULL

cl_insert_tail(qh, head, count, n, x) == cl_insert_at(qh, head, count, n, x, count)
cl_insert_head(qh, head, count, n, x) == cl_insert_at(qh, head, count, n, x, 0)
cl_remove_head(qh, head, count) == cl_remove_at(qh, head, count, 0)
cl_get_head(qh, head, count) == cl_get_at(qh, head, count, 0)
cl_get_size(count) == count

(* ------------------------------ queue.c --------------------------------- *)
\* queue_enqueue through cl_insert_head
queue_enqueue_res_head(qh, head, count, n, x) == cl_insert_head(qh, head, count, n, x)

\* queue_enqueue: result [heap, head, count]
queue_enqueue_res(qh, head, count, n, x) == cl_insert_tail(qh, head, count, n, x)

\* queue_dequeue: result [heap, head, count, ret, fault].  The copy
\* memcpy(val, cl_get_head(q->tail), size) is made before any test of the
\* list: on an empty queue its source is NULL, a read of address 0.
queue_dequeue_res(qh, head, count) ==
    IF cl_get_head(qh, head, count) = NULL
    THEN [heap |-> qh, head |-> head, count |-> count, ret |-> NULL, fault |-> TRUE]
    ELSE [heap |-> cl_remove_head(qh, head, count).heap,
          head |-> cl_remove_head(qh, head, count).head,
          count |-> cl_remove_head(qh, head, count).count,
          ret |-> cl_get_head(qh, head, count), fault |-> FALSE]

queue_peek_res(qh, head, count) == cl_get_head(qh, head, count)
queue_get_size(count) == cl_get_size(count)

(* ------------------------- tree operations ----------------------------- *)
\* ghost bookkeeping: x put at its place in a sorted sequence
RECURSIVE SortedInsert(_, _)
SortedInsert(s, x) ==
    IF s = << >> THEN <<x>>
    ELSE IF x <= Head(s) THEN <<x>> \o s
    ELSE <<Head(s)>> \o SortedInsert(Tail(s), x)

\* ghost bookkeeping: the values met by a left-root-right walk over the
\* child links below n
RECURSIVE InOrder(_, _)
InOrder(nd, n) ==
    IF n = NULL THEN << >>
    ELSE InOrder(nd, nd[n].left) \o <<nd[n].ptr>> \o InOrder(nd, nd[n].right)

\* ghost bookkeeping: the tree below n as <<value, left shape, right shape>>,
\* << >> for no node; depth counts down so that a walk over links that loop
\* comes to an end
RECURSIVE Shape(_, _, _)
Shape(nd, n, depth) ==
    IF n = NULL \/ depth = 0 THEN << >>
    ELSE <<nd[n].ptr, Shape(nd, nd[n].left, depth - 1), Shape(nd, nd[n].right, depth - 1)>>

\* ghost bookkeeping: the values in a shape
RECURSIVE ShapeValues(_)
ShapeValues(sh) ==
    IF sh = << >> THEN {} ELSE {sh[1]} \cup ShapeValues(sh[2]) \cup ShapeValues(sh[3])

\* ghost bookkeeping: the prev and fresh fields of a removal of x
RoundTrip(last, insert_op, x) ==
    IF last.op = insert_op /\ last.x = x /\ last.fresh
    THEN [prev |-> last.prev, fresh |-> TRUE]
    ELSE [prev |-> << >>, fresh |-> FALSE]

\* the sizes and the comparators handed to the constructors
ElemSizes == {0, 1, SizeMax}
Comparators == {NULL, 1}

TreeInit ==
    /\ node = [i \in NodeIds |-> ZeroNode]
    /\ nodeCount = 0
    /\ root = NULL
    /\ treeFault = FALSE
    /\ treeLast = [op |-> "create", args |-> << >>, x |-> 0, ret |-> NULL, before |-> << >>,
                   prev |-> << >>, fresh |-> FALSE]
    /\ inserted = << >>
    /\ live = {}
    /\ visited = << >>

BST_insert ==
    \E x \in Values, c \in NullCmp :
        /\ ~treeFault
        /\ nodeCount < MaxNodes
        /\ root = NULL => c = "nonneg"
        /\ LET r == BST_insert_res(node, root, nodeCount, x, c)
           IN  /\ node' = r.node
               /\ root' = r.root
               /\ treeFault' = r.fault
               /\ treeLast' = [op |-> "BST_insert", args |-> << >>, x |-> x, ret |-> r.ret, before |-> << >>,
                               prev |-> Shape(node, root, MaxNodes),
                               fresh |-> x \notin ShapeValues(Shape(node, root, MaxNodes))]
        /\ nodeCount' = nodeCount + 1
        /\ inserted' = SortedInsert(inserted, x)
        /\ live' = live \cup {x}
        /\ visited' = << >>
        /\ UNCHANGED nonTreeVars

BST_remove ==
    \E x \in Values :
        /\ ~treeFault
        /\ LET r == BST_remove_res(node, root, x)
           IN  /\ node' = r.node
               /\ root' = r.root
               /\ treeLast' = [op |-> "BST_remove", args |-> << >>, x |-> x, ret |-> r.ret,
                               before |-> InOrder(node, root),
                               prev |-> RoundTrip(treeLast, "BST_insert", x).prev,
                               fresh |-> RoundTrip(treeLast, "BST_insert", x).fresh]
        /\ live' = live \ {x}
        /\ visited' = << >>
        /\ UNCHANGED <<nodeCount, treeFault, inserted>>
        /\ UNCHANGED nonTreeVars

BST_traverse_inoder ==
    \E k \in 0..MaxNodes :
        /\ ~treeFault
        /\ k <= Len(BST_left_spine(node, root, << >>))
        /\ LET r == BST_traverse_inoder_res(node, root, k)
           IN  /\ visited' = r.seq
               /\ treeFault' = r.fault
        /\ treeLast' = [op |-> "BST_traverse_inoder", args |-> << >>, x |-> 0, ret |-> NULL, before |-> << >>,
                        prev |-> << >>, fresh |-> FALSE]
        /\ UNCHANGED <<node, nodeCount, root, inserted, live>>
        /\ UNCHANGED nonTreeVars

BST_traverse_preoder ==
    \E g \in OobReads :
        /\ ~treeFault
        /\ root = NULL => g = "null"
        /\ LET r == BST_traverse_preoder_res(node, root, g)
           IN  /\ visited' = r.seq
               /\ treeFault' = r.fault
        /\ treeLast' = [op |-> "BST_traverse_preoder", args |-> << >>, x |-> 0, ret |-> NULL, before |-> << >>,
                        prev |-> << >>, fresh |-> FALSE]
        /\ UNCHANGED <<node, nodeCount, root, inserted, live>>
        /\ UNCHANGED nonTreeVars

BST_traverse_postoder ==
    \E g \in OobReads :
        /\ ~treeFault
        /\ root = NULL => g = "null"
        /\ LET r == BST_traverse_postoder_res(node, root, g)
           IN  /\ visited' = r.seq
               /\ treeFault' = r.fault
        /\ treeLast' = [op |-> "BST_traverse_postoder", args |-> << >>, x |-> 0, ret |-> NULL, before |-> << >>,
                        prev |-> << >>, fresh |-> FALSE]
        /\ UNCHANGED <<node, nodeCount, root, inserted, live>>
        /\ UNCHANGED nonTreeVars

AVL_insert ==
    \E x \in Values, c \in NullCmp :
        /\ ~treeFault
        /\ nodeCount < MaxNodes
        /\ root = NULL => c = "nonneg"
        /\ LET r == AVL_insert_res(node, root, nodeCount, x, c)
           IN  /\ node' = r.node
               /\ root' = r.root
               /\ treeFault' = r.fault
        /\ treeLast' = [op |-> "AVL_insert", args |-> << >>, x |-> x, ret |-> NULL, before |-> << >>,
                        prev |-> Shape(node, root, MaxNodes),
                        fresh |-> x \notin ShapeValues(Shape(node, root, MaxNodes))]
        /\ nodeCount' = nodeCount + 1
        /\ inserted' = SortedInsert(inserted, x)
        /\ live' = live \cup {x}
        /\ visited' = << >>
        /\ UNCHANGED nonTreeVars

AVL_remove ==
    \E x \in Values :
        /\ ~treeFault
        /\ LET r == AVL_remove_res(node, root, x)
           IN  /\ node' = r.node
               /\ root' = r.root
        /\ treeLast' = [op |-> "AVL_remove", args |-> << >>, x |-> x, ret |-> NULL, before |-> << >>,
                        prev |-> RoundTrip(treeLast, "AVL_insert", x).prev,
                        fresh |-> RoundTrip(treeLast, "AVL_insert", x).fresh]
        /\ live' = live \ {x}
        /\ visited' = << >>
        /\ UNCHANGED <<nodeCount, treeFault, inserted>>
        /\ UNCHANGED nonTreeVars

(* ---------------------------- snode.c ---------------------------------- *)
\* skip-list node heap: id -> [ptr, forward, level, freed]; forward maps
\* the levels 0..level-1 to node ids.  SENTINEL is the node sl_create makes.
SENTINEL == 1
SNodeIds == 1..(MaxSNodes + 1)

snode_create(x, level) ==
    [ptr |-> x, forward |-> [l \in 0..(level - 1) |-> NULL], level |-> level, freed |-> FALSE]

ZeroSNode == [ptr |-> 0, forward |-> [l \in 0..(-1) |-> NULL], level |-> 0, freed |-> FALSE]

\* free() of value, forward array and struct: the words stay in memory
snode_delete(sh, n) == IF n # NULL THEN [sh EXCEPT ![n].freed = TRUE] ELSE sh

snode_get_value(sh, n) == IF n # NULL THEN sh[n].ptr ELSE NULL

\* no null check on sn: callers must not pass NULL
snode_get_next(sh, n, level) == IF level < sh[n].level THEN sh[n].forward[level] ELSE NULL

snode_set_next(sh, n, next, level) ==
    IF level < sh[n].level THEN [sh EXCEPT ![n].forward[level] = next] ELSE sh

(* --------------------------- skiplist.c -------------------------------- *)
\* the comparator of the list, on two valid element pointers
sl_compare(a, b) == a - b

\* the inner while loop of the scan at one level: result [tmp, uaf], uaf
\* telling whether a freed node was read
RECURSIVE sl_scan_level(_, _, _, _, _)
sl_scan_level(sh, tmp, lvl, x, uaf) ==
    LET nx == snode_get_next(sh, tmp, lvl)
        u == uaf \/ sh[tmp].freed \/ (nx # NULL /\ sh[nx].freed)
    IN  IF nx # NULL /\ sl_compare(snode_get_value(sh, nx), x) < 0
        THEN sl_scan_level(sh, nx, lvl, x, u)
        ELSE [tmp |-> tmp, uaf |-> u]

\* the for loop "for (i = max_levels; i > 0; i--)" of sl_insert and
\* sl_remove: result [update, tmp, uaf]
RECURSIVE sl_scan(_, _, _, _, _, _)
sl_scan(sh, tmp, i, x, update, uaf) ==
    IF i = 0 THEN [update |-> update, tmp |-> tmp, uaf |-> uaf]
    ELSE LET r == sl_scan_level(sh, tmp, i - 1, x, uaf)
         IN  sl_scan(sh, r.tmp, i - 1, x, [update EXCEPT ![i - 1] = r.tmp], r.uaf)

sl_find_update(sh, maxl, x) ==
    sl_scan(sh, SENTINEL, maxl, x, [l \in 0..(maxl - 1) |-> NULL], FALSE)

\* sl_insert, the splice loop "for (i = 0; i < node_level; i++)": the first
\* snode_set_next is handed node_level as its level argument
RECURSIVE sl_insert_splice(_, _, _, _, _)
sl_insert_splice(sh, update, n, node_level, i) ==
    IF i >= node_level THEN sh
    ELSE LET s1 == snode_set_next(sh, n, snode_get_next(sh, update[i], i), node_level)
             s2 == snode_set_next(s1, update[i], n, i)
         IN  sl_insert_splice(s2, update, n, node_level, i + 1)

\* sl_insert: result [heap, fault]; u is the outcome of reading freed memory
sl_insert_res(sh, cnt, maxl, x, node_level, u) ==
    LET sc == sl_find_update(sh, maxl, x)
        n == cnt + 2
        s0 == [sh EXCEPT ![n] = snode_create(x, node_level)]
    IN  IF sc.uaf /\ u = "fault" THEN [heap |-> sh, fault |-> TRUE]
        ELSE [heap |-> sl_insert_splice(s0, sc.update, n, node_level, 0), fault |-> FALSE]

\* "while (sl->max_levels > 1 && !snode_get_next(sl->sentinel, sl->max_levels - 1))"
RECURSIVE sl_shrink(_, _)
sl_shrink(sh, maxl) ==
    IF maxl > 1 /\ snode_get_next(sh, SENTINEL, maxl - 1) = NULL
    THEN sl_shrink(sh, maxl - 1)
    ELSE maxl

\* sl_remove, the unlink loop "for (i = 0; i < sl->max_levels; i++)";
\* snode_delete sits inside the loop and nulls to_be_deleted, so from the
\* second iteration on to_be_deleted is NULL.  Result [heap, maxl, fault].
RECURSIVE sl_remove_unlink(_, _, _, _, _)
sl_remove_unlink(sh, update, tbd, maxl, i) ==
    IF i >= maxl THEN [heap |-> sh, maxl |-> maxl, fault |-> FALSE]
    ELSE IF snode_get_next(sh, update[i], i) # tbd
         THEN [heap |-> sh, maxl |-> maxl, fault |-> FALSE]
         ELSE IF tbd = NULL
              THEN [heap |-> sh, maxl |-> maxl, fault |-> TRUE]   \* snode_get_next(NULL, i)
              ELSE LET s1 == snode_set_next(sh, update[i], snode_get_next(sh, tbd, i), i)
                       s2 == snode_delete(s1, tbd)
                   IN  sl_remove_unlink(s2, update, NULL, sl_shrink(s2, maxl), i + 1)

\* sl_remove up to the decrement of element_count: result [heap, maxl, fault]
sl_remove_res(sh, maxl, x, u) ==
    LET sc == sl_find_update(sh, maxl, x)
        to_be_deleted == snode_get_next(sh, sc.tmp, 0)
        uaf == sc.uaf \/ (to_be_deleted # NULL /\ sh[to_be_deleted].freed)
    IN  IF uaf /\ u = "fault" THEN [heap |-> sh, maxl |-> maxl, fault |-> TRUE]
        ELSE IF to_be_deleted # NULL /\ sl_compare(snode_get_value(sh, to_be_deleted), x) = 0
             THEN sl_remove_unlink(sh, sc.update, to_be_deleted, maxl, 0)
             ELSE [heap |-> sh, maxl |-> maxl, fault |-> FALSE]

\* sl_search, the loop "for (i = max_levels; i > 0; i++)": i counts upwards
\* and leaves the loop when it wraps around to 0.  Result [tmp, uaf].
RECURSIVE sl_search_loop(_, _, _, _, _)
sl_search_loop(sh, to_ret, i, x, uaf) ==
    IF i = 0 THEN [tmp |-> to_ret, uaf |-> uaf]
    ELSE LET r == sl_scan_level(sh, to_ret, i, x, uaf)
         IN  sl_search_loop(sh, r.tmp, (i + 1) % (SizeMax + 1), x, r.uaf)

\* the values the loop variable i of sl_search takes in the loop body, in
\* order: "for (size_t i = sl->max_levels; i > 0; i++)", the body reading
\* level i
RECURSIVE sl_search_levels(_)
sl_search_levels(i) ==
    IF i = 0 THEN << >>
    ELSE <<i>> \o sl_search_levels((i + 1) % (SizeMax + 1))

\* sl_search: result [ret, fault]
sl_search_res(sh, maxl, x, u) ==
    LET r == sl_search_loop(sh, SENTINEL, maxl, x, FALSE)
        to_ret == snode_get_next(sh, r.tmp, 0)
        uaf == r.uaf \/ (to_ret # NULL /\ sh[to_ret].freed)
    IN  IF uaf /\ u = "fault" THEN [ret |-> NULL, fault |-> TRUE]
        ELSE [ret |-> IF to_ret # NULL /\ sl_compare(snode_get_value(sh, to_ret), x) = 0
                      THEN to_ret ELSE NULL,
              fault |-> FALSE]

\* sl_clear, the loop "while(tmp)" over the level-0 chain: result
\* [heap, uaf, hang]; uaf tells whether a node already freed was read and
\* freed again, hang whether the chain runs in a circle
RECURSIVE sl_clear_walk(_, _, _, _)
sl_clear_walk(sh, tmp, uaf, fuel) ==
    IF tmp = NULL THEN [heap |-> sh, uaf |-> uaf, hang |-> FALSE]
    ELSE IF fuel = 0 THEN [heap |-> sh, uaf |-> uaf, hang |-> TRUE]
    ELSE sl_clear_walk(snode_delete(sh, tmp), snode_get_next(sh, tmp, 0),
                       uaf \/ sh[tmp].freed, fuel - 1)

\* sl_clear, the loop "for (i = 0; i < sl->max_levels; i++)" on the sentinel
RECURSIVE sl_clear_sentinel(_, _, _)
sl_clear_sentinel(sh, maxl, i) ==
    IF i >= maxl THEN sh
    ELSE sl_clear_sentinel(snode_set_next(sh, SENTINEL, NULL, i), maxl, i + 1)

\* sl_clear: result [heap, fault]; element_count is not touched
sl_clear_res(sh, maxl, u) ==
    LET w == sl_clear_walk(sh, snode_get_next(sh, SENTINEL, 0), FALSE, MaxSNodes + 1)
    IN  IF w.hang \/ (w.uaf /\ u = "fault") THEN [heap |-> sh, fault |-> TRUE]
        ELSE [heap |-> sl_clear_sentinel(w.heap, maxl, 0), fault |-> FALSE]

\* sl_create with the probability test left out
sl_create_res_any_probability(element_size, maxl, probability, cmp) ==
    IF /\ 0 < element_size /\ element_size <= SizeMax
       /\ 0 < maxl /\ maxl <= SizeMax
       /\ cmp # NULL
    THEN [sl |-> 1, element_count |-> 0, max_levels |-> maxl, sentinel |-> snode_create(0, maxl)]
    ELSE [sl |-> NULL, element_count |-> 0, max_levels |-> 0, sentinel |-> ZeroSNode]

\* sl_create: result [sl, element_count, max_levels, sentinel]; sl is NULL
\* when no object is made.  probability is given in tenths.  The
\* allocations are taken to succeed.
sl_create_res(element_size, maxl, probability, cmp) ==
    IF /\ 0 < element_size /\ element_size <= SizeMax
       /\ 0 < maxl /\ maxl <= SizeMax
       /\ 0 < probability /\ probability < 10
       /\ cmp # NULL
    THEN [sl |-> 1, element_count |-> 0, max_levels |-> maxl, sentinel |-> snode_create(0, maxl)]
    ELSE [sl |-> NULL, element_count |-> 0, max_levels |-> 0, sentinel |-> ZeroSNode]

\* sl_get_size and sl_is_empty on a valid list handle
sl_get_size(cnt) == cnt
sl_is_empty(cnt) == cnt = 0

\* sl_generate_random_level: any level 1..max_levels can come out
sl_generate_random_level(maxl) == 1..maxl

(* ---------------------------- hashmap.c -------------------------------- *)
\* Keys are C strings, named by the ids 1..3; KeyStr gives their characters.
\* "a" and "i" share their djb2 hash modulo 8, "ab" has "a" as a prefix.
KeyIds == 1..3
KeyStr(k) == CASE k = 1 -> <<97>>          \* "a"
               [] k = 2 -> <<105>>         \* "i"
               [] OTHER -> <<97, 98>>      \* "ab"

Slots == 0..(Capacity - 1)
ZeroSlot == [key |-> NULL, val |-> 0]      \* calloc / memset(0) contents

\* strncmp(read_key, key, strlen(key)) == 0: only the first strlen(key)
\* characters are compared, and read_key ends at its terminator
KeyMatch(read_key, key) ==
    LET a == KeyStr(read_key)
        b == KeyStr(key)
    IN  /\ Len(a) >= Len(b)
        /\ \A j \in 1..Len(b) : a[j] = b[j]

\* hash_util_default_hash: hash = ((hash << 5) + hash) + c from 5381; for
\* the keys of KeyStr the value stays far below the width of size_t
RECURSIVE djb2(_, _)
djb2(str, hash) ==
    IF str = << >> THEN hash
    ELSE djb2(Tail(str), ((hash * 32) + hash) + Head(str))

hash_util_default_hash(k) == djb2(KeyStr(k), 5381)

\* hash_util_default_second_hash: mixes the key, then returns 0
hash_util_default_second_hash(k) == 0

\* the functions a caller can hand to hash_set_function and
\* hash_set_second_function: its own copy of djb2, or the string length
UserHashes == {"djb2", "strlen"}

\* a null function pointer handed to a setter
NullFunction == "NULL"

\* hash_set_function: "if (hash && map) hash->hash_func = map": result
\* [hash_func, second_hash]
hash_set_function_res(f, f2, map) ==
    [hash_func |-> IF map # NullFunction THEN map ELSE f, second_hash |-> f2]

\* hash_set_second_function: "if (hash && map2) hash->hash_func = map2"
hash_set_second_function_res(f, f2, map2) ==
    [hash_func |-> IF map2 # NullFunction THEN map2 ELSE f, second_hash |-> f2]

\* value of hash->hash_func(key)
hash_func_apply(f, k) ==
    CASE f = "default_second_hash" -> hash_util_default_second_hash(k)
      [] f = "djb2" -> hash_util_default_hash(k)
      [] OTHER -> Len(KeyStr(k))

\* hash->second_hash is never assigned (hash_create and both setters write
\* hash_func), so every call of it jumps through an uninitialised pointer:
\* the call kills the process (CRASH) or comes back with some stride
CRASH == -1
StepOutcomes == {CRASH} \cup Slots

bitset_count(occ) == Cardinality({j \in Slots : occ[j]})
bitset_get(occ, j) == IF j < Capacity THEN occ[j] ELSE FALSE
bitset_set(occ, j) == IF j < Capacity THEN [occ EXCEPT ![j] = TRUE] ELSE occ
bitset_unset(occ, j) == IF j < Capacity THEN [occ EXCEPT ![j] = FALSE] ELSE occ

\* hash_put, the probe loop: result [values, occupied]
RECURSIVE hash_put_loop(_, _, _, _, _, _, _)
hash_put_loop(vals, occ, index, step, i, key, value) ==
    IF i >= Capacity THEN [values |-> vals, occupied |-> occ]
    ELSE IF ~bitset_get(occ, index)
         THEN [values |-> [vals EXCEPT ![index] = [key |-> key, val |-> value]],
               occupied |-> bitset_set(occ, i)]
         ELSE hash_put_loop(vals, occ, (index + step) % Capacity, step, i + 1, key, value)

\* hash_put without its "proceed if not full" test
hash_put_res_unguarded(vals, occ, f, key, value, so) ==
    IF so = CRASH THEN [values |-> vals, occupied |-> occ, fault |-> TRUE]
    ELSE LET r == hash_put_loop(vals, occ, hash_func_apply(f, key) % Capacity,
                                so, 0, key, value)
         IN  [values |-> r.values, occupied |-> r.occupied, fault |-> FALSE]

\* hash_put: result [values, occupied, fault]
hash_put_res(vals, occ, f, key, value, so) ==
    IF bitset_count(occ) < Capacity
    THEN IF so = CRASH THEN [values |-> vals, occupied |-> occ, fault |-> TRUE]
         ELSE LET r == hash_put_loop(vals, occ, hash_func_apply(f, key) % Capacity,
                                     so, 0, key, value)
              IN  [values |-> r.values, occupied |-> r.occupied, fault |-> FALSE]
    ELSE [values |-> vals, occupied |-> occ, fault |-> FALSE]

\* hash_create: result [hash, values, occupied, hash_func, second_hash];
\* hash is NULL when no object is made.  hash_func is assigned twice (the
\* second assignment, of the default second hash, stays), second_hash is
\* not assigned at all and keeps what malloc left there.  The allocations
\* are taken to succeed.
hash_create_res(capacity, element_size) ==
    IF 0 < capacity /\ 0 < element_size /\ capacity <= SizeMax \div element_size
    THEN [hash |-> 1, values |-> [j \in Slots |-> ZeroSlot],
          occupied |-> [j \in Slots |-> FALSE],
          hash_func |-> "default_second_hash", second_hash |-> "uninitialised"]
    ELSE [hash |-> NULL, values |-> [j \in Slots |-> ZeroSlot],
          occupied |-> [j \in Slots |-> FALSE],
          hash_func |-> "none", second_hash |-> "none"]

\* hash_put with key = NULL or value = NULL: "if (hash && key)" tests the
\* key only, so a null value reaches memcpy(to_insert + 8, value, size)
\* at the first free slot of the probe sequence, a read of address 0.
\* Result [values, occupied, fault].
hash_put_null_res(vals, occ, f, key, value, so) ==
    IF key = NULL THEN [values |-> vals, occupied |-> occ, fault |-> FALSE]
    ELSE IF value # NULL THEN hash_put_res(vals, occ, f, key, value, so)
    ELSE IF hash_put_res(vals, occ, f, key, value, so).values # vals
         THEN [values |-> vals, occupied |-> occ, fault |-> TRUE]
         ELSE hash_put_res(vals, occ, f, key, value, so)

\* the probe loop of hash_get, hash_get_2 and hash_remove: the first slot
\* that is marked occupied and whose key matches.  Result [found, index,
\* fault]; fault when a marked slot holds a null key pointer (strncmp(NULL)).
RECURSIVE hash_probe(_, _, _, _, _, _)
hash_probe(vals, occ, index, step, i, key) ==
    IF i >= Capacity THEN [found |-> FALSE, index |-> 0, fault |-> FALSE]
    ELSE IF bitset_get(occ, index)
         THEN IF vals[index].key = NULL
              THEN [found |-> FALSE, index |-> index, fault |-> TRUE]
              ELSE IF KeyMatch(vals[index].key, key)
                   THEN [found |-> TRUE, index |-> index, fault |-> FALSE]
                   ELSE hash_probe(vals, occ, (index + step) % Capacity, step, i + 1, key)
         ELSE hash_probe(vals, occ, (index + step) % Capacity, step, i + 1, key)

\* hash_get: result [ret, fault], ret the value found or NULL
hash_get_res(vals, occ, f, key, so) ==
    IF bitset_count(occ) > 0
    THEN IF so = CRASH THEN [ret |-> NULL, fault |-> TRUE]
         ELSE LET r == hash_probe(vals, occ, hash_func_apply(f, key) % Capacity, so, 0, key)
              IN  [ret |-> IF r.found THEN vals[r.index].val ELSE NULL, fault |-> r.fault]
    ELSE [ret |-> NULL, fault |-> FALSE]

\* hash_get_2: no emptiness test; result [buf, fault]
hash_get_2_res(vals, occ, f, key, buf, so) ==
    IF so = CRASH THEN [buf |-> buf, fault |-> TRUE]
    ELSE LET r == hash_probe(vals, occ, hash_func_apply(f, key) % Capacity, so, 0, key)
         IN  [buf |-> IF r.found THEN vals[r.index].val ELSE buf, fault |-> r.fault]

\* hash_remove: result [values, occupied, fault].  free(read_key) releases
\* the caller's key string: owned tells whether that string came from malloc.
hash_remove_res(vals, occ, f, key, so, owned) ==
    IF bitset_count(occ) > 0
    THEN IF so = CRASH THEN [values |-> vals, occupied |-> occ, fault |-> TRUE]
         ELSE LET r == hash_probe(vals, occ, hash_func_apply(f, key) % Capacity, so, 0, key)
              IN  IF r.fault THEN [values |-> vals, occupied |-> occ, fault |-> TRUE]
                  ELSE IF r.found
                  THEN IF owned
                       THEN [values |-> [vals EXCEPT ![r.index] = ZeroSlot],
                             occupied |-> bitset_unset(occ, r.index), fault |-> FALSE]
                       ELSE [values |-> [vals EXCEPT ![r.index] = ZeroSlot],
                             occupied |-> occ, fault |-> TRUE]
                  ELSE [values |-> vals, occupied |-> occ, fault |-> FALSE]
    ELSE [values |-> vals, occupied |-> occ, fault |-> FALSE]

\* vec_clear: memset of the whole array to 0
vec_clear(vals) == [j \in Slots |-> ZeroSlot]

\* hash_clear: "if (hash) vec_clear(hash->values)": result [values, occupied]
hash_clear_res(vals, occ) == [values |-> vec_clear(vals), occupied |-> occ]

\* hash_get_capacity on a valid table: the size of the values vector
hash_get_capacity == Capacity

(* ------------------------------ dnode.c --------------------------------- *)
\* dnode heap: id -> [ptr, prev, next, freed]
DNodeIds == 1..MaxDNodes
ZeroDNode == [ptr |-> 0, prev |-> NULL, next |-> NULL, freed |-> FALSE]

dnode_create(x) == [ptr |-> x, prev |-> NULL, next |-> NULL, freed |-> FALSE]
\* dnode_delete: free of the value, memset(0) of the node, free of the node
dnode_delete(dh, n) ==
    IF n # NULL THEN [dh EXCEPT ![n] = [ptr |-> 0, prev |-> NULL, next |-> NULL, freed |-> TRUE]]
    ELSE dh
dnode_get_value(dh, n) == IF n # NULL THEN dh[n].ptr ELSE NULL
dnode_get_next(dh, n) == IF n # NULL THEN dh[n].next ELSE NULL
dnode_set_next(dh, n, next) == IF n # NULL THEN [dh EXCEPT ![n].next = next] ELSE dh
dnode_get_prev(dh, n) == IF n # NULL THEN dh[n].prev ELSE NULL
dnode_set_prev(dh, n, prev) == IF n # NULL THEN [dh EXCEPT ![n].prev = prev] ELSE dh

(* --------------------------- dclinkedlist.c ----------------------------- *)
\* dcl_create assigns element_size and element_count and leaves dcl->head
\* as malloc delivered it.  A read of the field before its first
\* assignment yields a null pointer, the address of the node just
\* allocated, or a pointer to no object at all (WILD).
WILD == -3
DHeadReads(head, n) == IF head = UNINIT THEN {NULL, WILD, n} ELSE {head}

\* "i % dcl->element_count" with element_count = 0 is a division by zero:
\* the instruction traps (CRASH) or, where it does not trap, delivers the
\* quotient 0 and with it the remainder i
ModOutcomes(i, count) == IF count = 0 THEN {CRASH, i} ELSE {i % count}

\* "for (int j = 0; j < bound; j++) tmp = dnode_get_next(tmp);" from j on
RECURSIVE dcl_walk(_, _, _, _)
dcl_walk(dh, tmp, j, bound) ==
    IF j < bound THEN dcl_walk(dh, dnode_get_next(dh, tmp), j + 1, bound) ELSE tmp

\* dcl_insert_at, the four pointer assignments that put dn in front of tmp
dcl_insert_link(dh, tmp, dn) ==
    dnode_set_prev(
        dnode_set_next(
            dnode_set_prev(
                dnode_set_next(dh, dnode_get_prev(dh, tmp), dn),
                dn, dnode_get_prev(dh, tmp)),
            dn, tmp),
        tmp, dn)

\* a node that was freed is read or written when dn is put in front of tmp
dcl_insert_uaf(dh, tmp) ==
    tmp # NULL /\ (dh[tmp].freed \/ (dh[tmp].prev # NULL /\ dh[dh[tmp].prev].freed))

\* dcl_insert_at: result [heap, head, count, fault, uaf]; dn is the node
\* dnode_create returns (the allocation is taken to succeed), head the
\* value read from dcl->head, actual_index one of ModOutcomes
dcl_insert_at(dh, head, count, dn, x, i0, actual_index) ==
    IF actual_index = CRASH \/ head = WILD
    THEN [heap |-> dh, head |-> head, count |-> count, fault |-> TRUE, uaf |-> FALSE]
    ELSE [heap |-> dcl_insert_link([dh EXCEPT ![dn] = dnode_create(x)],
                                   dcl_walk(dh, head, 0, actual_index), dn),
          head |-> IF i0 % (count + 1) = 0
                   THEN dnode_get_prev(dcl_insert_link([dh EXCEPT ![dn] = dnode_create(x)],
                                                       dcl_walk(dh, head, 0, actual_index), dn),
                                       head)
                   ELSE head,
          count |-> (count + 1) % (SizeMax + 1),
          fault |-> FALSE,
          uaf |-> dcl_insert_uaf(dh, dcl_walk(dh, head, 0, actual_index))]

dcl_insert_head(dh, head, count, dn, x, actual_index) ==
    dcl_insert_at(dh, head, count, dn, x, 0, actual_index)
dcl_insert_tail(dh, head, count, dn, x, actual_index) ==
    dcl_insert_at(dh, head, count, dn, x, count, actual_index)

\* dcl_remove_at on a list that counts at least one element: result
\* [heap, head, count].  The statement under "Head update" has no effect:
\* dcl->head is not assigned.
dcl_remove_unlink(dh, to_be_deleted) ==
    dnode_set_prev(
        dnode_set_next(dh, dnode_get_prev(dh, to_be_deleted), dnode_get_next(dh, to_be_deleted)),
        dnode_get_next(dh, to_be_deleted), dnode_get_prev(dh, to_be_deleted))

dcl_remove_at(dh, head, count, i0) ==
    [heap |-> dnode_delete(dcl_remove_unlink(dh, dcl_walk(dh, head, 0, i0 % count)),
                           dcl_walk(dh, head, 0, i0 % count)),
     head |-> head,
     count |-> count - 1]

dcl_remove_head(dh, head, count) == dcl_remove_at(dh, head, count, 0)
dcl_remove_tail(dh, head, count) == dcl_remove_at(dh, head, count, count - 1)

\* dcl_get_at on a list that counts at least one element
dcl_get_at(dh, head, count, i0) == dnode_get_value(dh, dcl_walk(dh, head, 0, i0 % count))
dcl_get_head(dh, head, count) == dcl_get_at(dh, head, count, 0)
dcl_get_tail(dh, head, count) == dcl_get_at(dh, head, count, count - 1)

(* ------------------------------ deque.c --------------------------------- *)
\* deque_pop_front on a list that counts at least one element: result
\* [heap, head, count, ret, fault].  memcpy(val, dcl_get_head(d->head), size)
\* reads address 0 when the head node has no value.
deque_pop_front_res(dh, head, count) ==
    IF dcl_get_head(dh, head, count) = NULL
    THEN [heap |-> dh, head |-> head, count |-> count, ret |-> NULL, fault |-> TRUE]
    ELSE [heap |-> dcl_remove_head(dh, head, count).heap,
          head |-> dcl_remove_head(dh, head, count).head,
          count |-> dcl_remove_head(dh, head, count).count,
          ret |-> dcl_get_head(dh, head, count), fault |-> FALSE]

deque_pop_back_res(dh, head, count) ==
    IF dcl_get_tail(dh, head, count) = NULL
    THEN [heap |-> dh, head |-> head, count |-> count, ret |-> NULL, fault |-> TRUE]
    ELSE [heap |-> dcl_remove_tail(dh, head, count).heap,
          head |-> dcl_remove_tail(dh, head, count).head,
          count |-> dcl_remove_tail(dh, head, count).count,
          ret |-> dcl_get_tail(dh, head, count), fault |-> FALSE]

\* BST_search(bst, NULL)
BST_search_null ==
    \E c \in NullCmp :
        /\ ~treeFault
        /\ LET r == BST_search_null_res(node, root, c)
           IN  /\ treeFault' = r.fault
               /\ treeLast' = [op |-> "BST_search_null", args |-> << >>, x |-> NULL, ret |-> r.ret,
                               before |-> InOrder(node, root),
                               prev |-> Shape(node, root, MaxNodes), fresh |-> FALSE]
        /\ UNCHANGED <<node, nodeCount, root, inserted, live, visited>>
        /\ UNCHANGED nonTreeVars

\* bst = BST_create(element_size, cmp): when an object is made the handle
\* followed from here on is the new, empty tree
BST_create ==
    \E element_size \in ElemSizes, cmp \in Comparators :
        /\ ~treeFault
        /\ LET r == BST_create_res(element_size, cmp)
           IN  /\ treeLast' = [op |-> "BST_create", args |-> <<element_size, cmp>>, x |-> 0,
                               ret |-> r.bst, before |-> << >>, prev |-> << >>, fresh |-> FALSE]
               /\ IF r.bst # NULL
                  THEN /\ node' = [i \in NodeIds |-> ZeroNode]
                       /\ root' = r.root
                       /\ nodeCount' = 0
                       /\ inserted' = << >>
                       /\ live' = {}
                       /\ visited' = << >>
                  ELSE UNCHANGED <<node, root, nodeCount, inserted, live, visited>>
        /\ UNCHANGED treeFault
        /\ UNCHANGED nonTreeVars

\* avl = AVL_create(element_size, cmp)
AVL_create ==
    \E element_size \in ElemSizes, cmp \in Comparators :
        /\ ~treeFault
        /\ LET r == AVL_create_res(element_size, cmp)
           IN  /\ treeLast' = [op |-> "AVL_create", args |-> <<element_size, cmp>>, x |-> 0,
                               ret |-> r.avl, before |-> << >>, prev |-> << >>, fresh |-> FALSE]
               /\ IF r.avl # NULL
                  THEN /\ node' = [i \in NodeIds |-> ZeroNode]
                       /\ root' = r.root
                       /\ nodeCount' = 0
                       /\ inserted' = << >>
                       /\ live' = {}
                       /\ visited' = << >>
                  ELSE UNCHANGED <<node, root, nodeCount, inserted, live, visited>>
        /\ UNCHANGED treeFault
        /\ UNCHANGED nonTreeVars

\* BST_successor(bst, bn) and BST_predecessor(bst, bn) for a node bn of the tree
BST_successor_query ==
    \E bn \in NodeIds :
        /\ ~treeFault
        /\ node[bn].ptr # 0
        /\ treeLast' = [op |-> "BST_successor", args |-> << >>, x |-> bn,
                        ret |-> BST_successor(node, bn),
                        before |-> InOrder(node, root), prev |-> << >>, fresh |-> FALSE]
        /\ UNCHANGED <<node, nodeCount, root, treeFault, inserted, live, visited>>
        /\ UNCHANGED nonTreeVars

BST_predecessor_query ==
    \E bn \in NodeIds :
        /\ ~treeFault
        /\ node[bn].ptr # 0
        /\ treeLast' = [op |-> "BST_predecessor", args |-> << >>, x |-> bn,
                        ret |-> BST_predecessor(node, bn),
                        before |-> InOrder(node, root), prev |-> << >>, fresh |-> FALSE]
        /\ UNCHANGED <<node, nodeCount, root, treeFault, inserted, live, visited>>
        /\ UNCHANGED nonTreeVars

\* BST_get_size(bst) and BST_get_height(bst)
BST_get_size ==
    \E g \in OobReads :
        /\ ~treeFault
        /\ root = NULL => g = "null"
        /\ LET r == BST_get_size_res(node, root, g)
           IN  /\ treeFault' = r.fault
               /\ treeLast' = [op |-> "BST_get_size", args |-> << >>, x |-> 0, ret |-> r.dim,
                               before |-> InOrder(node, root), prev |-> << >>, fresh |-> FALSE]
        /\ UNCHANGED <<node, nodeCount, root, inserted, live, visited>>
        /\ UNCHANGED nonTreeVars

BST_get_height_query ==
    /\ ~treeFault
    /\ treeLast' = [op |-> "BST_get_height", args |-> << >>, x |-> 0,
                    ret |-> BST_get_height(node, root),
                    before |-> InOrder(node, root), prev |-> << >>, fresh |-> FALSE]
    /\ UNCHANGED <<node, nodeCount, root, treeFault, inserted, live, visited>>
    /\ UNCHANGED nonTreeVars

\* BST_clear(bst); a call that never returns leaves the process stuck
BST_clear ==
    /\ ~treeFault
    /\ LET r == BST_clear_res(node, root)
       IN  /\ node' = r.node
           /\ root' = r.root
           /\ treeFault' = r.hang
           /\ treeLast' = [op |-> "BST_clear", args |-> << >>, x |-> 0, ret |-> r.iterations,
                           before |-> InOrder(node, root), prev |-> << >>, fresh |-> FALSE]
    /\ live' = {}
    /\ visited' = << >>
    /\ UNCHANGED <<nodeCount, inserted>>
    /\ UNCHANGED nonTreeVars

\* BST_min(bst) and BST_max(bst)
BST_min ==
    /\ ~treeFault
    /\ treeLast' = [op |-> "BST_min", args |-> << >>, x |-> 0, ret |-> BST_min_res(node, root),
                    before |-> InOrder(node, root), prev |-> << >>, fresh |-> FALSE]
    /\ UNCHANGED <<node, nodeCount, root, treeFault, inserted, live, visited>>
    /\ UNCHANGED nonTreeVars

BST_max ==
    /\ ~treeFault
    /\ treeLast' = [op |-> "BST_max", args |-> << >>, x |-> 0, ret |-> BST_max_res(node, root),
                    before |-> InOrder(node, root), prev |-> << >>, fresh |-> FALSE]
    /\ UNCHANGED <<node, nodeCount, root, treeFault, inserted, live, visited>>
    /\ UNCHANGED nonTreeVars

\* BST_min_2(bst, buf) and BST_max_2(bst, buf) on a buffer holding 0; ret is
\* what the buffer holds afterwards
BST_min_2 ==
    /\ ~treeFault
    /\ LET r == BST_min_2_res(node, root, 0)
       IN  /\ treeFault' = r.fault
           /\ treeLast' = [op |-> "BST_min_2", args |-> << >>, x |-> 0, ret |-> r.buf,
                           before |-> InOrder(node, root), prev |-> << >>, fresh |-> FALSE]
    /\ UNCHANGED <<node, nodeCount, root, inserted, live, visited>>
    /\ UNCHANGED nonTreeVars

BST_max_2 ==
    /\ ~treeFault
    /\ LET r == BST_max_2_res(node, root, 0)
       IN  /\ treeFault' = r.fault
           /\ treeLast' = [op |-> "BST_max_2", args |-> << >>, x |-> 0, ret |-> r.buf,
                           before |-> InOrder(node, root), prev |-> << >>, fresh |-> FALSE]
    /\ UNCHANGED <<node, nodeCount, root, inserted, live, visited>>
    /\ UNCHANGED nonTreeVars

(* ------------------------ skip list operations ------------------------- *)
SkipInit ==
    /\ slHeap = [n \in SNodeIds |-> IF n = SENTINEL THEN snode_create(0, MaxLevels) ELSE ZeroSNode]
    /\ slCount = 0
    /\ element_count = 0
    /\ max_levels = MaxLevels
    /\ slFault = FALSE
    /\ slLast = [op |-> "sl_create", args |-> << >>, x |-> 0, ret |-> NULL]
    /\ slInserted = << >>
    /\ slLive = {}
    /\ slRemoves = 0

\* the probabilities handed to sl_create, in tenths
Probabilities == {-5, 0, 5, 10, 15}

\* sl = sl_create(element_size, max_levels, probability, cmp): when an
\* object is made the handle followed from here on is the new, empty list
sl_create ==
    \E element_size \in ElemSizes, maxl \in 0..MaxLevels, probability \in Probabilities,
       cmp \in Comparators :
        /\ ~slFault
        /\ LET r == sl_create_res(element_size, maxl, probability, cmp)
           IN  /\ slLast' = [op |-> "sl_create", args |-> <<element_size, maxl, probability, cmp>>,
                             x |-> 0, ret |-> r.sl]
               /\ IF r.sl # NULL
                  THEN /\ slHeap' = [n \in SNodeIds |-> IF n = SENTINEL THEN r.sentinel ELSE ZeroSNode]
                       /\ slCount' = 0
                       /\ element_count' = r.element_count
                       /\ max_levels' = r.max_levels
                       /\ slInserted' = << >>
                       /\ slLive' = {}
                  ELSE UNCHANGED <<slHeap, slCount, element_count, max_levels, slInserted, slLive>>
        /\ UNCHANGED <<slFault, slRemoves>>
        /\ UNCHANGED nonSkipVars

sl_insert ==
    \E x \in Values, node_level \in sl_generate_random_level(max_levels), u \in {"fault", "stale"} :
        /\ ~slFault
        /\ slCount < MaxSNodes
        /\ LET r == sl_insert_res(slHeap, slCount, max_levels, x, node_level, u)
           IN  /\ slHeap' = r.heap
               /\ slFault' = r.fault
               /\ slCount' = IF r.fault THEN slCount ELSE slCount + 1
               /\ element_count' = IF r.fault THEN element_count
                                   ELSE (element_count + 1) % (SizeMax + 1)
        /\ max_levels' = max_levels      \* node_level > max_levels never holds
        /\ slLast' = [op |-> "sl_insert", args |-> << >>, x |-> x, ret |-> NULL]
        /\ slInserted' = SortedInsert(slInserted, x)
        /\ slLive' = slLive \cup {x}
        /\ UNCHANGED slRemoves
        /\ UNCHANGED nonSkipVars

sl_remove ==
    \E x \in Values, u \in {"fault", "stale"} :
        /\ ~slFault
        /\ slRemoves < MaxSlRemoves
        /\ LET r == sl_remove_res(slHeap, max_levels, x, u)
           IN  /\ slHeap' = r.heap
               /\ max_levels' = r.maxl
               /\ slFault' = r.fault
               /\ element_count' = IF r.fault THEN element_count
                                   ELSE (element_count - 1) % (SizeMax + 1)
        /\ slLast' = [op |-> "sl_remove", args |-> << >>, x |-> x, ret |-> NULL]
        /\ slLive' = slLive \ {x}
        /\ slRemoves' = slRemoves + 1
        /\ UNCHANGED <<slCount, slInserted>>
        /\ UNCHANGED nonSkipVars

sl_search ==
    \E x \in Values, u \in {"fault", "stale"} :
        /\ ~slFault
        /\ LET r == sl_search_res(slHeap, max_levels, x, u)
           IN  /\ slFault' = r.fault
               /\ slLast' = [op |-> "sl_search", args |-> << >>, x |-> x, ret |-> r.ret]
        /\ UNCHANGED <<slHeap, slCount, element_count, max_levels, slInserted, slLive, slRemoves>>
        /\ UNCHANGED nonSkipVars

sl_clear ==
    \E u \in {"fault", "stale"} :
        /\ ~slFault
        /\ LET r == sl_clear_res(slHeap, max_levels, u)
           IN  /\ slHeap' = r.heap
               /\ slFault' = r.fault
        /\ slLast' = [op |-> "sl_clear", args |-> << >>, x |-> 0, ret |-> NULL]
        /\ slLive' = {}
        /\ UNCHANGED <<slCount, element_count, max_levels, slInserted, slRemoves>>
        /\ UNCHANGED nonSkipVars

(* ----------------------- ring buffer operations ------------------------ *)
\* after ring_create(RingCapacity, element_size)
RingInit ==
    /\ ring_vec = [i \in 0..(RingCapacity - 1) |-> 0]
    /\ ring_head = 0
    /\ ring_tail = 0
    /\ ring_flags = 0
    /\ ringLast = [op |-> "ring_create", x |-> 0, ret |-> NULL]
    /\ ringStored = << >>

ring_enqueue ==
    \E x \in 1..MaxElem :
        /\ LET r == ring_enqueue_res(ring_vec, ring_head, ring_tail, ring_flags, x)
           IN  /\ ring_vec' = r.vec
               /\ ring_head' = r.head
               /\ ring_tail' = r.tail
               /\ ring_flags' = r.flags
        /\ ringLast' = [op |-> "ring_enqueue", x |-> x, ret |-> NULL]
        /\ ringStored' = IF Len(ringStored) < RingCapacity THEN Append(ringStored, x)
                         ELSE ringStored
        /\ UNCHANGED nonRingVars

ring_deque ==
    /\ LET r == ring_deque_res(ring_vec, ring_head, ring_tail, ring_flags)
       IN  /\ ring_vec' = r.vec
           /\ ring_head' = r.head
           /\ ringLast' = [op |-> "ring_deque", x |-> 0, ret |-> r.ret]
    /\ ringStored' = IF ringStored # << >> THEN Tail(ringStored) ELSE ringStored
    /\ UNCHANGED <<ring_tail, ring_flags>>
    /\ UNCHANGED nonRingVars

\* ring_deque_2(r, buf) on a buffer holding 0; ret is what the buffer holds
\* afterwards
ring_deque_2 ==
    /\ LET r == ring_deque_res(ring_vec, ring_head, ring_tail, ring_flags)
       IN  /\ ring_vec' = r.vec
           /\ ring_head' = r.head
           /\ ringLast' = [op |-> "ring_deque_2", x |-> 0, ret |-> r.ret]
    /\ ringStored' = IF ringStored # << >> THEN Tail(ringStored) ELSE ringStored
    /\ UNCHANGED <<ring_tail, ring_flags>>
    /\ UNCHANGED nonRingVars

(* -------------------------- queue operations ---------------------------- *)
\* after queue_create(element_size): cl_create sets element_size and
\* element_count and leaves head as malloc delivered it
QueueInit ==
    /\ qHeap = [n \in QNodeIds |-> ZeroQNode]
    /\ qCount = 0
    /\ cl_head = UNINIT
    /\ cl_element_count = 0
    /\ queueFault = FALSE
    /\ queueLast = [op |-> "queue_create", x |-> 0, ret |-> NULL]
    /\ queueIn = << >>
    /\ queueOut = << >>

queue_enqueue ==
    \E x \in Values, h \in HeadReads(cl_head) :
        /\ ~queueFault
        /\ qCount < MaxQNodes
        /\ LET r == queue_enqueue_res(qHeap, h, cl_element_count, qCount + 1, x)
           IN  /\ qHeap' = r.heap
               /\ cl_head' = r.head
               /\ cl_element_count' = r.count
        /\ qCount' = qCount + 1
        /\ queueLast' = [op |-> "queue_enqueue", x |-> x, ret |-> NULL]
        /\ queueIn' = Append(queueIn, x)
        /\ UNCHANGED <<queueFault, queueOut>>
        /\ UNCHANGED nonQueueVars

queue_dequeue ==
    /\ ~queueFault
    /\ LET r == queue_dequeue_res(qHeap, cl_head, cl_element_count)
       IN  /\ qHeap' = r.heap
           /\ cl_head' = r.head
           /\ cl_element_count' = r.count
           /\ queueFault' = r.fault
           /\ queueLast' = [op |-> "queue_dequeue", x |-> 0, ret |-> r.ret]
           /\ queueOut' = IF r.fault THEN queueOut ELSE Append(queueOut, r.ret)
    /\ UNCHANGED <<qCount, queueIn>>
    /\ UNCHANGED nonQueueVars

queue_peek ==
    /\ ~queueFault
    /\ queueLast' = [op |-> "queue_peek", x |-> 0,
                     ret |-> queue_peek_res(qHeap, cl_head, cl_element_count)]
    /\ UNCHANGED <<qHeap, qCount, cl_head, cl_element_count, queueFault, queueIn, queueOut>>
    /\ UNCHANGED nonQueueVars

(* -------------------------- deque operations --------------------------- *)
\* after deque_create(element_size)
DequeInit ==
    /\ dHeap = [n \in DNodeIds |-> ZeroDNode]
    /\ dCount = 0
    /\ dcl_head = UNINIT
    /\ dcl_element_count = 0
    /\ dequeFault = FALSE
    /\ dequeLast = [op |-> "deque_create", x |-> 0, ret |-> NULL, want |-> 0]
    /\ dequeModel = << >>

deque_push_front ==
    \E x \in Values, h \in DHeadReads(dcl_head, dCount + 1),
       actual_index \in ModOutcomes(0, dcl_element_count), u \in {"fault", "stale"} :
        /\ ~dequeFault
        /\ dCount < MaxDNodes
        /\ LET r == dcl_insert_head(dHeap, h, dcl_element_count, dCount + 1, x, actual_index)
           IN  /\ dHeap' = r.heap
               /\ dcl_head' = IF r.fault THEN dcl_head ELSE r.head
               /\ dcl_element_count' = r.count
               /\ dequeFault' = (r.fault \/ (r.uaf /\ u = "fault"))
        /\ dCount' = dCount + 1
        /\ dequeLast' = [op |-> "deque_push_front", x |-> x, ret |-> NULL, want |-> 0]
        /\ dequeModel' = <<x>> \o dequeModel
        /\ UNCHANGED nonDequeVars

deque_push_back ==
    \E x \in Values, h \in DHeadReads(dcl_head, dCount + 1),
       actual_index \in ModOutcomes(dcl_element_count % (dcl_element_count + 1), dcl_element_count),
       u \in {"fault", "stale"} :
        /\ ~dequeFault
        /\ dCount < MaxDNodes
        /\ LET r == dcl_insert_tail(dHeap, h, dcl_element_count, dCount + 1, x, actual_index)
           IN  /\ dHeap' = r.heap
               /\ dcl_head' = IF r.fault THEN dcl_head ELSE r.head
               /\ dcl_element_count' = r.count
               /\ dequeFault' = (r.fault \/ (r.uaf /\ u = "fault"))
        /\ dCount' = dCount + 1
        /\ dequeLast' = [op |-> "deque_push_back", x |-> x, ret |-> NULL, want |-> 0]
        /\ dequeModel' = Append(dequeModel, x)
        /\ UNCHANGED nonDequeVars

\* the pops explored are those on a list that counts at least one element
deque_pop_front ==
    /\ ~dequeFault
    /\ dcl_element_count > 0
    /\ LET r == deque_pop_front_res(dHeap, dcl_head, dcl_element_count)
       IN  /\ dHeap' = r.heap
           /\ dcl_head' = r.head
           /\ dcl_element_count' = r.count
           /\ dequeFault' = r.fault
           /\ dequeLast' = [op |-> "deque_pop_front", x |-> 0, ret |-> r.ret,
                            want |-> Head(dequeModel)]
    /\ dequeModel' = Tail(dequeModel)
    /\ UNCHANGED dCount
    /\ UNCHANGED nonDequeVars

deque_pop_back ==
    /\ ~dequeFault
    /\ dcl_element_count > 0
    /\ LET r == deque_pop_back_res(dHeap, dcl_head, dcl_element_count)
       IN  /\ dHeap' = r.heap
           /\ dcl_head' = r.head
           /\ dcl_element_count' = r.count
           /\ dequeFault' = r.fault
           /\ dequeLast' = [op |-> "deque_pop_back", x |-> 0, ret |-> r.ret,
                            want |-> dequeModel[Len(dequeModel)]]
    /\ dequeModel' = SubSeq(dequeModel, 1, Len(dequeModel) - 1)
    /\ UNCHANGED dCount
    /\ UNCHANGED nonDequeVars

(* ----------------------- hash table operations ------------------------- *)
\* before hash_create: no table yet
HashInit ==
    /\ values = [j \in Slots |-> ZeroSlot]
    /\ occupied = [j \in Slots |-> FALSE]
    /\ hash_func = "none"
    /\ second_hash = "none"
    /\ hashFault = FALSE
    /\ hashLast = [op |-> "none", args |-> << >>, key |-> 0, ret |-> 0, pre |-> FALSE, step |-> 0]
    /\ hmap = [k \in KeyIds |-> 0]
    /\ hClean = TRUE
    /\ hPuts = 0

\* a table has been made by hash_create and the process is alive
HashExists ==
    /\ hashLast.op # "none"
    /\ ~(hashLast.op = "hash_create" /\ hashLast.ret = NULL)
    /\ ~hashFault

\* hash_create(capacity, element_size), called until a table is made; the
\* capacity of a table is Capacity
hash_create ==
    \E capacity \in {0, Capacity}, element_size \in ElemSizes :
        /\ ~HashExists /\ ~hashFault
        /\ LET r == hash_create_res(capacity, element_size)
           IN  /\ values' = r.values
               /\ occupied' = r.occupied
               /\ hash_func' = r.hash_func
               /\ second_hash' = r.second_hash
               /\ hashLast' = [op |-> "hash_create", args |-> <<capacity, element_size>>,
                               key |-> 0, ret |-> r.hash, pre |-> FALSE, step |-> 0]
        /\ UNCHANGED <<hashFault, hmap, hClean, hPuts>>
        /\ UNCHANGED nonHashVars

HStored == {k \in KeyIds : hmap[k] # 0}

\* the hash_put calls explored: MaxPuts of them, and one more when the
\* bitset is full by then
PutExplored ==
    hPuts < MaxPuts \/ (hPuts = MaxPuts /\ bitset_count(occupied) = Capacity)

hash_put ==
    \E key \in KeyIds, value \in 1..MaxElem, so \in StepOutcomes :
        /\ HashExists
        /\ PutExplored
        /\ hPuts' = hPuts + 1
        /\ LET r == hash_put_res(values, occupied, hash_func, key, value, so)
           IN  /\ values' = r.values
               /\ occupied' = r.occupied
               /\ hashFault' = r.fault
        /\ hashLast' = [op |-> "hash_put", args |-> << >>, key |-> key, ret |-> 0,
                        pre |-> hmap[key] = 0 /\ Cardinality(HStored) < Capacity, step |-> 0]
        /\ hmap' = IF hmap[key] # 0 \/ Cardinality(HStored) < Capacity
                   THEN [hmap EXCEPT ![key] = value] ELSE hmap
        /\ hClean' = (hClean /\ hmap[key] = 0 /\ Cardinality(HStored) < Capacity)
        /\ UNCHANGED <<hash_func, second_hash>>
        /\ UNCHANGED nonHashVars

\* hash_put(hash, NULL, value), hash_put(hash, key, NULL), hash_put(hash, NULL, NULL)
hash_put_null ==
    \E key \in KeyIds \cup {NULL}, value \in (1..MaxElem) \cup {NULL}, so \in StepOutcomes :
        /\ HashExists
        /\ key = NULL \/ value = NULL
        /\ LET r == hash_put_null_res(values, occupied, hash_func, key, value, so)
           IN  /\ values' = r.values
               /\ occupied' = r.occupied
               /\ hashFault' = r.fault
        /\ hashLast' = [op |-> "hash_put_null", args |-> << >>, key |-> key, ret |-> 0, pre |-> FALSE,
                        step |-> IF key = NULL THEN 0 ELSE so]
        /\ UNCHANGED <<hash_func, second_hash, hmap, hClean, hPuts>>
        /\ UNCHANGED nonHashVars

hash_remove ==
    \E key \in KeyIds, so \in StepOutcomes, owned \in BOOLEAN :
        /\ HashExists
        /\ LET r == hash_remove_res(values, occupied, hash_func, key, so, owned)
           IN  /\ values' = r.values
               /\ occupied' = r.occupied
               /\ hashFault' = r.fault
        /\ hashLast' = [op |-> "hash_remove", args |-> << >>, key |-> key, ret |-> 0, pre |-> hmap[key] # 0,
                        step |-> so]
        /\ hmap' = [hmap EXCEPT ![key] = 0]
        /\ hClean' = FALSE
        /\ UNCHANGED <<hash_func, second_hash, hPuts>>
        /\ UNCHANGED nonHashVars

hash_get ==
    \E key \in KeyIds, so \in StepOutcomes :
        /\ HashExists
        /\ LET r == hash_get_res(values, occupied, hash_func, key, so)
           IN  /\ hashFault' = r.fault
               /\ hashLast' = [op |-> "hash_get", args |-> << >>, key |-> key, ret |-> r.ret, pre |-> hmap[key] # 0,
                               step |-> 0]
        /\ UNCHANGED <<values, occupied, hash_func, second_hash, hmap, hClean, hPuts>>
        /\ UNCHANGED nonHashVars

hash_get_2 ==
    \E key \in KeyIds, so \in StepOutcomes :
        /\ HashExists
        /\ LET r == hash_get_2_res(values, occupied, hash_func, key, 0, so)
           IN  /\ hashFault' = r.fault
               /\ hashLast' = [op |-> "hash_get_2", args |-> << >>, key |-> key, ret |-> r.buf, pre |-> hmap[key] # 0,
                               step |-> 0]
        /\ UNCHANGED <<values, occupied, hash_func, second_hash, hmap, hClean, hPuts>>
        /\ UNCHANGED nonHashVars

hash_clear ==
    /\ HashExists
    /\ LET r == hash_clear_res(values, occupied)
       IN  /\ values' = r.values
           /\ occupied' = r.occupied
    /\ hashLast' = [op |-> "hash_clear", args |-> << >>, key |-> 0, ret |-> 0,
                    pre |-> HStored # {}, step |-> 0]
    /\ hmap' = [k \in KeyIds |-> 0]
    /\ hClean' = FALSE
    /\ UNCHANGED <<hash_func, second_hash, hashFault, hPuts>>
    /\ UNCHANGED nonHashVars

\* nothing has been put into the table since it was made
NoPutYet == hashLast.op \in {"hash_create", "hash_set_function", "hash_set_second_function"}

\* hash_set_function: only legal before the first put, so that stored keys
\* stay on their probe sequence
hash_set_function ==
    \E map \in UserHashes \cup {NullFunction} :
        /\ HashExists
        /\ NoPutYet
        /\ LET r == hash_set_function_res(hash_func, second_hash, map)
           IN  /\ hash_func' = r.hash_func
               /\ second_hash' = r.second_hash
        /\ hashLast' = [op |-> "hash_set_function", args |-> <<map>>, key |-> 0, ret |-> 0,
                        pre |-> FALSE, step |-> 0]
        /\ UNCHANGED <<values, occupied, hashFault, hmap, hClean, hPuts>>
        /\ UNCHANGED nonHashVars

\* hash_set_second_function assigns hash_func as well
hash_set_second_function ==
    \E map2 \in UserHashes \cup {NullFunction} :
        /\ HashExists
        /\ NoPutYet
        /\ LET r == hash_set_second_function_res(hash_func, second_hash, map2)
           IN  /\ hash_func' = r.hash_func
               /\ second_hash' = r.second_hash
        /\ hashLast' = [op |-> "hash_set_second_function", args |-> <<map2>>, key |-> 0, ret |-> 0,
                        pre |-> FALSE, step |-> 0]
        /\ UNCHANGED <<values, occupied, hashFault, hmap, hClean, hPuts>>
        /\ UNCHANGED nonHashVars

(* --------------------------- specifications ---------------------------- *)
vars == <<treeVars, slVars, hashVars, ringVars, queueVars, dequeVars>>

Init == TreeInit /\ SkipInit /\ HashInit /\ RingInit /\ QueueInit /\ DequeInit

NextBST == BST_insert \/ BST_remove \/ BST_traverse_inoder
SpecBST == Init /\ [][NextBST]_vars

\* behaviours made of BST_insert and BST_remove calls
NextBSTRemove == BST_insert \/ BST_remove
SpecBSTRemove == Init /\ [][NextBSTRemove]_vars

\* behaviours with calls that pass a null value or key
NextNull == BST_insert \/ BST_search_null \/ hash_create \/ hash_put_null
SpecNull == Init /\ [][NextNull]_vars

\* behaviours made of BST_insert calls and minimum / maximum queries
NextMinMax == BST_insert \/ BST_min \/ BST_max \/ BST_min_2 \/ BST_max_2
SpecMinMax == Init /\ [][NextMinMax]_vars

\* behaviours made of constructor calls
NextCreate == BST_create \/ AVL_create \/ sl_create \/ hash_create
SpecCreate == Init /\ [][NextCreate]_vars

\* behaviours of one ring buffer with the overwrite policy off
NextRing == ring_enqueue \/ ring_deque \/ ring_deque_2
SpecRing == Init /\ [][NextRing]_vars

\* behaviours of one queue
NextQueue == queue_enqueue \/ queue_dequeue \/ queue_peek
SpecQueue == Init /\ [][NextQueue]_vars

\* behaviours made of BST_insert calls and successor / predecessor queries
NextNeighbour == BST_insert \/ BST_successor_query \/ BST_predecessor_query
SpecNeighbour == Init /\ [][NextNeighbour]_vars

\* behaviours made of BST_insert calls and size / height queries
NextSize == BST_insert \/ BST_get_size \/ BST_get_height_query
SpecSize == Init /\ [][NextSize]_vars

\* behaviours made of BST_insert and BST_clear calls
NextClear == BST_insert \/ BST_clear
SpecClear == Init /\ [][NextClear]_vars

\* behaviours made of BST_insert calls (and traversals) only
NextBSTInsert == BST_insert \/ BST_traverse_inoder
SpecBSTInsert == Init /\ [][NextBSTInsert]_vars

\* behaviours made of BST_insert calls and the three traversals
NextTraverse ==
    BST_insert \/ BST_traverse_preoder \/ BST_traverse_inoder \/ BST_traverse_postoder
SpecTraverse == Init /\ [][NextTraverse]_vars

NextAVL == AVL_insert \/ AVL_remove
SpecAVL == Init /\ [][NextAVL]_vars

\* behaviours made of sl_insert, sl_remove and sl_clear calls
NextSkipClear == sl_insert \/ sl_remove \/ sl_clear
SpecSkipClear == Init /\ [][NextSkipClear]_vars

NextSkip == sl_insert \/ sl_remove \/ sl_search
SpecSkip == Init /\ [][NextSkip]_vars

\* behaviours made of hash_create, hash_put, hash_get and hash_clear calls
NextHashClear == hash_create \/ hash_put \/ hash_get \/ hash_clear
SpecHashClear == Init /\ [][NextHashClear]_vars

NextDeque == deque_push_front \/ deque_push_back \/ deque_pop_front \/ deque_pop_back
SpecDeque == Init /\ [][NextDeque]_vars

NextHash ==
    hash_create \/ hash_put \/ hash_remove \/ hash_get \/ hash_get_2 \/ hash_set_function
        \/ hash_set_second_function
SpecHash == Init /\ [][NextHash]_vars

\* behaviours made of hash_put calls on a fresh table
NextHashPut == hash_create \/ hash_put
SpecHashPut == Init /\ [][NextHashPut]_vars

Next == NextBST \/ NextTraverse \/ NextAVL \/ NextSkip \/ NextHash \/ NextRing \/ NextQueue \/ NextDeque
Spec == Init /\ [][Next]_vars

(* ------------------------- property vocabulary ------------------------- *)
\* nodes reachable from the root through child links
RECURSIVE Reach(_, _)
Reach(nd, n) ==
    IF n = NULL THEN {}
    ELSE {n} \cup Reach(nd, nd[n].left) \cup Reach(nd, nd[n].right)

Balanced == \A n \in Reach(node, root) : binarynode_get_balance(node, n) \in {-1, 0, 1}

Range(s) == {s[i] : i \in DOMAIN s}

IsDistinct(s) == \A i, j \in DOMAIN s : i # j => s[i] # s[j]

StrictlyAscending(s) == \A i, j \in DOMAIN s : i < j => s[i] < s[j]

\* s with its first occurrence of x taken out
RECURSIVE SeqWithout(_, _)
SeqWithout(s, x) ==
    IF s = << >> THEN << >>
    ELSE IF Head(s) = x THEN Tail(s)
    ELSE <<Head(s)>> \o SeqWithout(Tail(s), x)

\* s is t with some entries left out
RECURSIVE IsSubseq(_, _)
IsSubseq(s, t) ==
    IF s = << >> THEN TRUE
    ELSE IF t = << >> THEN FALSE
    ELSE IF Head(s) = Head(t) THEN IsSubseq(Tail(s), Tail(t))
    ELSE IsSubseq(s, Tail(t))

\* the nodes on the forward chain of one level, from n on
RECURSIVE ChainFrom(_, _, _, _)
ChainFrom(sh, n, level, fuel) ==
    IF n = NULL \/ fuel = 0 THEN << >>
    ELSE <<n>> \o ChainFrom(sh, snode_get_next(sh, n, level), level, fuel - 1)

\* the chain of a level behind the sentinel, as node ids and as values
Chain(level) == ChainFrom(slHeap, snode_get_next(slHeap, SENTINEL, level), level, MaxSNodes + 1)

ChainValues(level) == [i \in DOMAIN Chain(level) |-> slHeap[Chain(level)[i]].ptr]

\* the number of downward paths of at most fuel nodes that lead from n to target
RECURSIVE PathCount(_, _, _, _)
PathCount(nd, n, target, fuel) ==
    IF n = NULL \/ fuel = 0 THEN 0
    ELSE (IF n = target THEN 1 ELSE 0)
         + PathCount(nd, nd[n].left, target, fuel - 1)
         + PathCount(nd, nd[n].right, target, fuel - 1)

\* the binarynodes that were created and not deleted
StoredNodes == {n \in NodeIds : node[n].ptr # 0}

(* ------------------------------ claims --------------------------------- *)
\* C1: in a tree built by BST_insert calls alone, (a) every call that returns
\* has hung the new node below the last node its descent visited, on the side
\* the comparison of x with that node's value selects, with the parent link
\* set (the first node becomes the root), and (b) every in-order traversal
\* that returns has visited every inserted value exactly once, in
\* non-decreasing order.
C1_InsertOrderAndTraversal ==
    /\ (treeLast.op = "BST_insert" /\ ~treeFault) =>
          LET n == treeLast.ret
              p == binarynode_get_father(node, n)
          IN  /\ n # NULL
              /\ binarynode_get_value(node, n) = treeLast.x
              /\ IF nodeCount = 1 THEN root = n /\ p = NULL
                 ELSE /\ p # NULL
                      /\ IF compare(treeLast.x, binarynode_get_value(node, p)) < 0
                         THEN binarynode_get_left_child(node, p) = n
                         ELSE binarynode_get_right_child(node, p) = n
              /\ Len(InOrder(node, root)) = nodeCount
    /\ (treeLast.op = "BST_traverse_inoder" /\ ~treeFault) => visited = inserted

\* C2: after every AVL_insert and AVL_remove, every node reachable from the
\* root has left and right subtree heights that differ by at most one.
C2_AVLBalanced == Balanced

\* C3: three ascending values inserted with AVL_insert into an empty tree
\* leave the middle value at the root, the smallest as its left child, the
\* largest as its right child, and a tree of height 2.
C3_AscendingTriple ==
    (/\ treeLast.op = "AVL_insert"
     /\ ~treeFault
     /\ nodeCount = 3
     /\ Cardinality(live) = 3
     /\ node[1].ptr < node[2].ptr
     /\ node[2].ptr < node[3].ptr) =>
        /\ root # NULL
        /\ binarynode_get_value(node, root) = node[2].ptr
        /\ binarynode_get_value(node, binarynode_get_left_child(node, root)) = node[1].ptr
        /\ binarynode_get_value(node, binarynode_get_right_child(node, root)) = node[3].ptr
        /\ binarynode_get_height(node, root) = 2

\* C4: every value inserted and not removed since is found by BST_search
\* (a node holding that value) and reported by BST_contains; a value never
\* inserted is reported absent by both.
C4_Membership ==
    ~treeFault =>
        /\ \A x \in live :
              /\ BST_search(node, root, x) # NULL
              /\ binarynode_get_value(node, BST_search(node, root, x)) = x
              /\ BST_contains(node, root, x)
        /\ \A x \in Values \ Range(inserted) :
              /\ BST_search(node, root, x) = NULL
              /\ ~BST_contains(node, root, x)

\* C5: BST_remove(x) on a tree of distinct values that holds x leaves the
\* in-order sequence the tree had before, with x taken out.
C5_RemoveKeepsOthers ==
    (/\ treeLast.op = "BST_remove"
     /\ ~treeFault
     /\ IsDistinct(treeLast.before)
     /\ treeLast.x \in Range(treeLast.before)) =>
        InOrder(node, root) = SeqWithout(treeLast.before, treeLast.x)

\* C6: after every skip-list operation on distinct elements, the chain of
\* every level is strictly ascending and a subsequence of the level-0 chain,
\* and the level-0 chain holds every stored element.
C6_LevelInvariant ==
    (~slFault /\ IsDistinct(slInserted)) =>
        /\ \A l \in 0..(max_levels - 1) :
              /\ StrictlyAscending(ChainValues(l))
              /\ IsSubseq(Chain(l), Chain(0))
        /\ slLive \subseteq Range(ChainValues(0))

\* C7: sl_search (hence sl_contains) finds every element that was inserted
\* and not removed since, whatever levels the nodes drew.
C7_SkipMembership ==
    (slLast.op = "sl_search" /\ ~slFault /\ slLast.x \in slLive) => slLast.ret # NULL

\* C8: when every node drew level 1 and nothing was removed, the level-0
\* chain holds the distinct inserted elements in ascending order, none
\* dropped.
C8_LevelOneChain ==
    (/\ ~slFault
     /\ slRemoves = 0
     /\ IsDistinct(slInserted)
     /\ \A n \in 2..(slCount + 1) : slHeap[n].level = 1) =>
        ChainValues(0) = slInserted

\* C9: after hash_put(k, v) on a table that held fewer than capacity keys
\* and not k, hash_get and hash_get_2 return v for k, and every key stored
\* before still returns its value, whatever stride the second hash yields.
C9_PutGetRoundTrip ==
    (hashLast.op = "hash_put" /\ hashLast.pre /\ hClean /\ ~hashFault) =>
        \A k \in HStored, so \in Slots :
            /\ ~hash_get_res(values, occupied, hash_func, k, so).fault
            /\ hash_get_res(values, occupied, hash_func, k, so).ret = hmap[k]
            /\ ~hash_get_2_res(values, occupied, hash_func, k, 0, so).fault
            /\ hash_get_2_res(values, occupied, hash_func, k, 0, so).buf = hmap[k]

\* C10: after hash_remove(k) of a stored key k, hash_get(k) returns NULL,
\* also when other keys lie on k's probe sequence (the second hash yielding
\* for the get the stride it yielded for the remove).
C10_RemoveThenGet ==
    (hashLast.op = "hash_remove" /\ hashLast.pre /\ ~hashFault) =>
        /\ ~hash_get_res(values, occupied, hash_func, hashLast.key, hashLast.step).fault
        /\ hash_get_res(values, occupied, hash_func, hashLast.key, hashLast.step).ret = NULL

\* the slots whose pair carries the key k
SlotsOf(vals, k) == {j \in Slots : vals[j].key = k}

\* C11: hash_remove(k) leaves the result of hash_get untouched for every
\* other stored key that hash_get found before the call, colliding keys
\* included, whatever stride the second hash yields.
C11_RemoveKeepsOthers ==
    [][(hashLast'.op = "hash_remove" /\ ~hashFault') =>
          \A k2 \in KeyIds \ {hashLast'.key}, so \in Slots :
              (/\ hmap[k2] # 0
               /\ ~hash_get_res(values, occupied, hash_func, k2, so).fault
               /\ hash_get_res(values, occupied, hash_func, k2, so).ret = hmap[k2]) =>
                  /\ ~hash_get_res(values', occupied', hash_func', k2, so).fault
                  /\ hash_get_res(values', occupied', hash_func', k2, so).ret = hmap[k2]]_vars

\* C12: a hash_put of a key that is already stored makes hash_get return
\* the new value and leaves the key in exactly one slot.
C12_RePut ==
    [][(hashLast'.op = "hash_put" /\ hmap[hashLast'.key] # 0 /\ ~hashFault') =>
          /\ Cardinality(SlotsOf(values', hashLast'.key)) = 1
          /\ \A so \in Slots :
                /\ ~hash_get_res(values', occupied', hash_func', hashLast'.key, so).fault
                /\ hash_get_res(values', occupied', hash_func', hashLast'.key, so).ret
                       = hmap'[hashLast'.key]]_vars

\* C13: BST_insert(x) of a value the tree does not hold, followed by
\* BST_remove(x), gives back the tree as it was before the insert: same
\* shape, same value at every position.
C13_BSTRoundTrip ==
    (treeLast.op = "BST_remove" /\ treeLast.fresh /\ ~treeFault) =>
        Shape(node, root, MaxNodes) = treeLast.prev

\* C14: AVL_insert(x) of a value the tree does not hold, followed by
\* AVL_remove(x), gives back a tree of the shape and values it had before
\* the insert, rotations or not.
C14_AVLRoundTrip ==
    (treeLast.op = "AVL_remove" /\ treeLast.fresh /\ ~treeFault) =>
        Shape(node, root, MaxNodes) = treeLast.prev

\* the values below n in root-left-right and in left-right-root order
RECURSIVE PreOrder(_, _)
PreOrder(nd, n) ==
    IF n = NULL THEN << >>
    ELSE <<nd[n].ptr>> \o PreOrder(nd, nd[n].left) \o PreOrder(nd, nd[n].right)

RECURSIVE PostOrder(_, _)
PostOrder(nd, n) ==
    IF n = NULL THEN << >>
    ELSE PostOrder(nd, nd[n].left) \o PostOrder(nd, nd[n].right) \o <<nd[n].ptr>>

\* C15: a traversal that returns has handed the callback the value of every
\* element of the tree exactly once, in root-left-right order for
\* BST_traverse_preoder, left-root-right for BST_traverse_inoder and
\* left-right-root for BST_traverse_postoder (nothing on an empty tree).
C15_TraversalOrders ==
    ~treeFault =>
        /\ treeLast.op = "BST_traverse_preoder" => visited = PreOrder(node, root)
        /\ treeLast.op = "BST_traverse_inoder" => visited = InOrder(node, root)
        /\ treeLast.op = "BST_traverse_postoder" => visited = PostOrder(node, root)

\* C16: hash_put on a table whose bitset counts capacity occupied slots
\* changes no slot and no occupancy bit, does not fault, and leaves the
\* result of hash_get for every key as it was.
C16_FullPutNoOp ==
    [][(hashLast'.op = "hash_put" /\ bitset_count(occupied) = Capacity) =>
          /\ values' = values
          /\ occupied' = occupied
          /\ ~hashFault'
          /\ \A k \in KeyIds, so \in Slots :
                hash_get_res(values', occupied', hash_func', k, so)
                    = hash_get_res(values, occupied, hash_func, k, so)]_vars

\* C16, the case reached: a hash_put call made on a full bitset has returned
C16_FullPutReached ==
    /\ hashLast.op = "hash_put"
    /\ hPuts > MaxPuts
    /\ bitset_count(occupied) = Capacity
    /\ ~hashFault

\* C17: for a key that is not stored (in a table filled by puts of distinct
\* keys only), whatever else is stored, hash_get returns NULL, hash_get_2
\* leaves the buffer as it was, and hash_remove changes no slot and no
\* occupancy bit.
C17_AbsentKey ==
    (hClean /\ ~hashFault) =>
        \A k \in KeyIds \ HStored, so \in Slots :
            /\ ~hash_get_res(values, occupied, hash_func, k, so).fault
            /\ hash_get_res(values, occupied, hash_func, k, so).ret = NULL
            /\ hash_get_2_res(values, occupied, hash_func, k, 0, so).buf = 0
            /\ hash_remove_res(values, occupied, hash_func, k, so, TRUE).values = values
            /\ hash_remove_res(values, occupied, hash_func, k, so, TRUE).occupied = occupied

\* C18: BST_remove(x) for a value the tree does not hold, the empty tree
\* included, leaves the root, every node and every link as they were and
\* returns NULL.
C18_RemoveAbsentNoOp ==
    [][(treeLast'.op = "BST_remove" /\ treeLast'.x \notin Range(InOrder(node, root))) =>
          /\ node' = node
          /\ root' = root
          /\ treeLast'.ret = NULL
          /\ ~treeFault']_vars

\* C18, the case reached: BST_remove of an absent value has returned on a
\* tree that holds other values
C18_RemoveAbsentReached ==
    /\ treeLast.op = "BST_remove"
    /\ treeLast.before # << >>
    /\ treeLast.x \notin Range(treeLast.before)
    /\ ~treeFault

\* C19: a skip-list miss is a safe no-op: sl_remove(x) for a value the list
\* does not hold (the empty list included) changes no chain at any level,
\* leaves sl_get_size and sl_is_empty as they were and does not fault; a
\* sl_search for such a value returns NULL.
C19_MissNoOp ==
    [][/\ (slLast'.op = "sl_remove" /\ slLast'.x \notin slLive) =>
             /\ slHeap' = slHeap
             /\ max_levels' = max_levels
             /\ sl_get_size(element_count') = sl_get_size(element_count)
             /\ sl_is_empty(element_count') = sl_is_empty(element_count)
             /\ ~slFault'
       /\ (slLast'.op = "sl_search" /\ slLast'.x \notin slLive /\ ~slFault') =>
             slLast'.ret = NULL]_vars

\* C20: a call with a null value or key on a valid structure is a safe
\* no-op: BST_search(bst, NULL) changes no node, returns NULL and does not
\* fault in the comparator; hash_put with a null key or a null value, once
\* the stride has been computed, changes neither the vector nor the bitset
\* and does not fault in the memory copy.
C20_NullArgsNoOp ==
    [][/\ treeLast'.op = "BST_search_null" =>
             /\ node' = node
             /\ root' = root
             /\ treeLast'.ret = NULL
             /\ ~treeFault'
       /\ (hashLast'.op = "hash_put_null" /\ hashLast'.step # CRASH) =>
             /\ values' = values
             /\ occupied' = occupied
             /\ ~hashFault']_vars
\* C21: on an empty tree BST_min and BST_max return NULL, and BST_min_2 and
\* BST_max_2 leave the buffer as it was without copying from an absent
\* node; on a non-empty tree they yield the smallest / the largest stored
\* value.
C21_MinMax ==
    [][treeLast'.op \in {"BST_min", "BST_max", "BST_min_2", "BST_max_2"} =>
          /\ ~treeFault'
          /\ node' = node /\ root' = root
          /\ root = NULL => treeLast'.ret = NULL
          /\ (root # NULL /\ treeLast'.op \in {"BST_min", "BST_min_2"}) =>
                \A v \in Range(InOrder(node, root)) : treeLast'.ret <= v
          /\ (root # NULL /\ treeLast'.op \in {"BST_max", "BST_max_2"}) =>
                \A v \in Range(InOrder(node, root)) : treeLast'.ret >= v
          /\ root # NULL => treeLast'.ret \in Range(InOrder(node, root))]_vars
\* C22: a constructor called with an invalid parameter returns NULL, and
\* called with valid parameters returns an empty structure: BST_create and
\* AVL_create need a non-zero element size and a comparator; sl_create
\* needs a non-zero element size, a non-zero number of levels, a
\* probability strictly between 0 and 1 and a comparator; hash_create needs
\* a non-zero capacity and a non-zero element size whose product is
\* representable.
C22_Create ==
    /\ treeLast.op \in {"BST_create", "AVL_create"} =>
          IF treeLast.args[1] = 0 \/ treeLast.args[2] = NULL
          THEN treeLast.ret = NULL
          ELSE treeLast.ret # NULL /\ root = NULL /\ BST_is_empty(root)
    /\ (slLast.op = "sl_create" /\ slLast.args # << >>) =>
          IF \/ slLast.args[1] = 0 \/ slLast.args[2] = 0
             \/ slLast.args[3] <= 0 \/ slLast.args[3] >= 10
             \/ slLast.args[4] = NULL
          THEN slLast.ret = NULL
          ELSE /\ slLast.ret # NULL
               /\ sl_get_size(element_count) = 0 /\ sl_is_empty(element_count)
               /\ max_levels = slLast.args[2]
               /\ \A l \in 0..(max_levels - 1) : snode_get_next(slHeap, SENTINEL, l) = NULL
    /\ hashLast.op = "hash_create" =>
          IF hashLast.args[1] = 0 \/ hashLast.args[2] = 0
          THEN hashLast.ret = NULL
          ELSE (hashLast.args[1] * hashLast.args[2] <= SizeMax) =>
                  /\ hashLast.ret # NULL
                  /\ bitset_count(occupied) = 0
                  /\ \A j \in Slots : values[j] = ZeroSlot

\* C22, the cases reached: each constructor has refused a parameter, and
\* each has made an object
C22_CreateReached ==
    /\ treeLast.op = "AVL_create" /\ treeLast.ret # NULL
    /\ slLast.op = "sl_create" /\ slLast.args # << >> /\ slLast.ret = NULL
    /\ slLast.args[1] # 0 /\ slLast.args[2] # 0 /\ slLast.args[4] # NULL
    /\ hashLast.op = "hash_create" /\ hashLast.ret # NULL
\* C23: with overwriting off, after any sequence of ring_enqueue, ring_deque
\* and ring_deque_2 calls ring_is_full holds exactly when the ring holds
\* RingCapacity elements, ring_is_empty exactly when it holds none, and
\* ring_get_cur_size is the number of elements held; so a dequeue from a
\* full ring leaves it not full, one short of its capacity.
C23_RingFullness ==
    /\ ring_is_full(ring_flags) <=> Len(ringStored) = RingCapacity
    /\ ring_is_empty(ring_head, ring_tail, ring_flags) <=> ringStored = << >>
    /\ ring_get_cur_size(ring_head, ring_tail, ring_flags) = Len(ringStored)
\* the values of the count nodes met from n on along the next links
RECURSIVE ListValues(_, _, _)
ListValues(qh, n, count) ==
    IF count = 0 \/ n = NULL THEN << >>
    ELSE <<qh[n].ptr>> \o ListValues(qh, qh[n].next, count - 1)

C25_TreeShape ==
    ~treeFault =>
        /\ root # NULL => binarynode_get_father(node, root) = NULL
        /\ \A n \in Reach(node, root) :
              /\ node[n].left # NULL => node[node[n].left].father = n
              /\ node[n].right # NULL => node[node[n].right].father = n
        /\ \A n \in StoredNodes : PathCount(node, root, n, MaxNodes) = 1
\* C26: after any sequence of AVL_insert calls of distinct values, rotations
\* included, every inserted value is still reachable from the root,
\* AVL_contains is true for each of them and AVL_get_size is the number of
\* inserts.
C26_RotationsKeepConnected ==
    (treeLast.op = "AVL_insert" /\ ~treeFault /\ Cardinality(live) = nodeCount) =>
        /\ \A v \in live : v \in Range(InOrder(node, root))
        /\ \A v \in live : AVL_contains(node, root, v)
        /\ \A g \in OobReads :
              /\ ~AVL_get_size_res(node, root, g).fault
              /\ AVL_get_size_res(node, root, g).dim = nodeCount
\* the node a removal takes out of the tree's links: the node holding the
\* value itself, or, when that node has two children, the leftmost node of
\* its right subtree
RemovalPoint(nd, xn) ==
    IF nd[xn].left # NULL /\ nd[xn].right # NULL
    THEN BST_min_walk(nd, nd[xn].right)
    ELSE xn

\* C27: a BST_remove of a stored value returns the former father of the
\* node that was taken out of the links (the in-order successor when the
\* value's node has two children), and a root removed without replacement
\* leaves the root null and returns NULL.
C27_RemoveReturn ==
    [][(treeLast'.op = "BST_remove" /\ BST_search_loop(node, root, treeLast'.x) # NULL) =>
          LET xn == BST_search_loop(node, root, treeLast'.x)
          IN  /\ treeLast'.ret = node[RemovalPoint(node, xn)].father
              /\ (xn = root /\ node[xn].left = NULL /\ node[xn].right = NULL) =>
                    (root' = NULL /\ treeLast'.ret = NULL)]_vars
\* the stored values above and below v
Above(v) == {w \in Range(InOrder(node, root)) : w > v}
Below(v) == {w \in Range(InOrder(node, root)) : w < v}

\* C28: in a search tree of distinct values, BST_successor(n) is the node
\* holding the smallest stored value greater than n's value, NULL when n
\* holds the maximum; BST_predecessor(n) is the node holding the largest
\* stored value smaller than n's, NULL for the minimum; and the predecessor
\* of the successor of n is n.
C28_Neighbours ==
    (/\ ~treeFault
     /\ treeLast.op \in {"BST_successor", "BST_predecessor"}
     /\ Len(InOrder(node, root)) = nodeCount
     /\ StrictlyAscending(InOrder(node, root))) =>
        LET v == node[treeLast.x].ptr
        IN  /\ treeLast.op = "BST_successor" =>
                 IF Above(v) = {} THEN treeLast.ret = NULL
                 ELSE /\ treeLast.ret # NULL
                      /\ node[treeLast.ret].ptr \in Above(v)
                      /\ \A w \in Above(v) : node[treeLast.ret].ptr <= w
                      /\ BST_predecessor(node, treeLast.ret) = treeLast.x
            /\ treeLast.op = "BST_predecessor" =>
                 IF Below(v) = {} THEN treeLast.ret = NULL
                 ELSE /\ treeLast.ret # NULL
                      /\ node[treeLast.ret].ptr \in Below(v)
                      /\ \A w \in Below(v) : node[treeLast.ret].ptr >= w
\* the number of nodes on the longest downward path from n, 0 for no node
RECURSIVE Height(_, _)
Height(nd, n) ==
    IF n = NULL THEN 0
    ELSE LET l == Height(nd, nd[n].left)
             r == Height(nd, nd[n].right)
         IN  1 + (IF l >= r THEN l ELSE r)

\* C29: BST_get_size returns the number of nodes reachable from the root, 0
\* for an empty tree; BST_get_height returns 0 for an empty tree and one
\* more than the greater of the heights of the root's subtrees otherwise;
\* neither query changes the tree.
C29_SizeHeight ==
    [][/\ treeLast'.op = "BST_get_size" =>
             /\ ~treeFault'
             /\ treeLast'.ret = Cardinality(Reach(node, root))
             /\ node' = node /\ root' = root
       /\ treeLast'.op = "BST_get_height" =>
             /\ treeLast'.ret = Height(node, root)
             /\ node' = node /\ root' = root]_vars
\* C30: BST_clear returns on every tree and leaves it empty: its loop takes
\* at most as many iterations as the tree has nodes, and afterwards the
\* root is null and BST_is_empty holds.
C30_ClearTerminates ==
    [][treeLast'.op = "BST_clear" =>
          /\ ~treeFault'
          /\ treeLast'.ret <= Cardinality(Reach(node, root))
          /\ root' = NULL
          /\ BST_is_empty(root')]_vars
\* the node sl_insert allocates in the step at hand, and the update
\* pointers its scan records
NewSNode == slCount + 2
UpdateFor(x) == sl_find_update(slHeap, max_levels, x).update

\* C31: when sl_insert creates a node of level k, for every level i < k the
\* new node's forward pointer of level i becomes what update[i]'s was
\* before and update[i]'s becomes the new node; the forward pointers of
\* every other node, and all pointers of the levels k and above, stay as
\* they were.
C31_InsertSplice ==
    [][(slLast'.op = "sl_insert" /\ ~slFault') =>
          LET n == NewSNode
              k == slHeap'[n].level
              update == UpdateFor(slLast'.x)
          IN  /\ \A i \in 0..(k - 1) :
                    /\ slHeap'[n].forward[i] = snode_get_next(slHeap, update[i], i)
                    /\ slHeap'[update[i]].forward[i] = n
              /\ \A m \in SNodeIds \ {n} : \A i \in DOMAIN slHeap[m].forward :
                    (i >= k \/ m # update[i]) => slHeap'[m].forward[i] = slHeap[m].forward[i]]_vars
\* the node sl_remove(x) finds behind its scan, in the state at hand
RemovedSNode(x) == snode_get_next(slHeap, sl_find_update(slHeap, max_levels, x).tmp, 0)

\* no forward pointer of a node in use refers to a freed node
NoDanglingForward(sh) ==
    \A m \in SNodeIds : \A i \in DOMAIN sh[m].forward :
        (~sh[m].freed /\ sh[m].forward[i] # NULL) => ~sh[sh[m].forward[i]].freed

\* C32: sl_remove(x) of a stored x, in a list of more than one level and
\* for a node of any level, unlinks the node from every level before
\* freeing it: the call comes back, afterwards no forward pointer refers to
\* the freed node, every other node is still on the level-0 chain, and
\* sl_search(x) finds nothing.
C32_RemoveUnlinks ==
    [][(/\ slLast'.op = "sl_remove"
        /\ max_levels > 1
        /\ NoDanglingForward(slHeap)
        /\ slLast'.x \in Range(ChainValues(0))) =>
          /\ ~slFault'
          /\ NoDanglingForward(slHeap')
          /\ ChainFrom(slHeap', snode_get_next(slHeap', SENTINEL, 0), 0, MaxSNodes + 1)
                = SeqWithout(Chain(0), RemovedSNode(slLast'.x))
          /\ \A u \in {"fault", "stale"} :
                sl_search_res(slHeap', max_levels', slLast'.x, u) = [ret |-> NULL, fault |-> FALSE]]_vars
\* the levels max_levels - 1 down to 0
Descending(maxl) == [j \in 1..maxl |-> maxl - j]

\* C33: the level loop of sl_search visits each level from max_levels - 1
\* down to 0 exactly once, the level index strictly decreasing and never
\* wrapping around, advancing at each level while the next value compares
\* less than the target; the node it ends on is the one the top-down scan
\* of sl_insert and sl_remove ends on.
C33_SearchScan ==
    [][slLast'.op = "sl_search" =>
          /\ sl_search_levels(max_levels) = Descending(max_levels)
          /\ \A j \in 1..(Len(sl_search_levels(max_levels)) - 1) :
                sl_search_levels(max_levels)[j + 1] < sl_search_levels(max_levels)[j]
          /\ sl_search_loop(slHeap, SENTINEL, max_levels, slLast'.x, FALSE).tmp
                = sl_find_update(slHeap, max_levels, slLast'.x).tmp]_vars
\* C34: after any sequence of sl_insert, sl_remove and sl_clear,
\* sl_get_size is the number of nodes on the level-0 chain and sl_is_empty
\* holds exactly when that chain is empty; after sl_clear the size is 0,
\* sl_is_empty holds and the chain of every level is empty.
C34_CountConsistency ==
    ~slFault =>
        /\ sl_get_size(element_count) = Len(Chain(0))
        /\ sl_is_empty(element_count) <=> (Chain(0) = << >>)
        /\ slLast.op = "sl_clear" =>
              /\ sl_get_size(element_count) = 0
              /\ sl_is_empty(element_count)
              /\ \A l \in 0..(MaxLevels - 1) : Chain(l) = << >>
\* the slots that hold a stored (key, value) pair
FilledSlots == {j \in Slots : values[j].key # NULL}

\* C35: after any sequence of hash_put and hash_remove, occupancy bit j is
\* set exactly when slot j holds a stored pair (hash_put marks the slot it
\* wrote), and the number of set bits is the number of stored pairs.
C35_Occupancy ==
    HashExists =>
        /\ \A j \in Slots : bitset_get(occupied, j) <=> (j \in FilledSlots)
        /\ bitset_count(occupied) = Cardinality(FilledSlots)
\* the slots of the probe sequence index_i = (index + i * step) mod capacity
ProbeSlots(index, step) == {(index + i * step) % Capacity : i \in 0..(Capacity - 1)}

\* C36: for every key the stride between probes is never 0 modulo the
\* capacity: the default secondary hash never yields such a stride, the
\* stride hash_remove works with is not one, and the probe sequence of a
\* key visits more than one slot.
C36_StrideNonZero ==
    HashExists =>
        /\ \A k \in KeyIds :
              /\ hash_util_default_second_hash(k) % Capacity # 0
              /\ Cardinality(ProbeSlots(hash_func_apply(hash_func, k) % Capacity,
                                        hash_util_default_second_hash(k))) > 1
        /\ hashLast.op = "hash_remove" => hashLast.step % Capacity # 0
\* C37: after hash_create the primary hash is the djb2 default and the
\* stride function is the default secondary hash; hash_set_function
\* replaces the primary hash only, hash_set_second_function the stride
\* function only, and a null function changes neither.
C37_FunctionWiring ==
    [][/\ (hashLast'.op = "hash_create" /\ hashLast'.ret # NULL) =>
             /\ \A k \in KeyIds : hash_func_apply(hash_func', k) = hash_util_default_hash(k)
             /\ second_hash' = "default_second_hash"
       /\ hashLast'.op = "hash_set_function" =>
             /\ hash_func' = IF hashLast'.args[1] = NullFunction THEN hash_func
                             ELSE hashLast'.args[1]
             /\ second_hash' = second_hash
       /\ hashLast'.op = "hash_set_second_function" =>
             /\ second_hash' = IF hashLast'.args[1] = NullFunction THEN second_hash
                               ELSE hashLast'.args[1]
             /\ hash_func' = hash_func]_vars
\* C38: after hash_clear no slot is marked occupied, hash_get returns null
\* for every key, hash_get_capacity is what it was, and a further hash_put
\* stores its pair, whatever the stride.
C38_ClearEmpties ==
    (HashExists /\ hashLast.op = "hash_clear") =>
        /\ bitset_count(occupied) = 0
        /\ hash_get_capacity = Capacity
        /\ \A k \in KeyIds, so \in Slots :
              /\ hash_get_res(values, occupied, hash_func, k, so) = [ret |-> NULL, fault |-> FALSE]
              /\ hash_put_res(values, occupied, hash_func, k, 1, so).values # values
\* the values of the count nodes met from n on along the next links
RECURSIVE DListValues(_, _, _)
DListValues(dh, n, count) ==
    IF count = 0 \/ n = NULL THEN << >>
    ELSE <<dh[n].ptr>> \o DListValues(dh, dh[n].next, count - 1)

\* C39: starting from a newly made deque every push succeeds and every pop
\* from a non-empty deque returns and removes the first (pop_front) or the
\* last (pop_back) element; after each call the list counts the elements
\* held and its head designates the first of them, the next links giving
\* the elements front to back.
C39_DequeEnds ==
    dequeLast.op # "deque_create" =>
        /\ ~dequeFault
        /\ dequeLast.op \in {"deque_pop_front", "deque_pop_back"} => dequeLast.ret = dequeLast.want
        /\ dcl_element_count = Len(dequeModel)
        /\ DListValues(dHeap, dcl_head, dcl_element_count) = dequeModel
====
